---- MODULE Spec2Model ----
(***************************************************************************)
(* A model of the map-localisation matching engine (package mapservice):   *)
(* image preparation, the probe builder, the uniform and the edge-weighted *)
(* matcher with their 8-worker row-band search, and the confidence         *)
(* evaluators.                                                             *)
(*                                                                         *)
(* Images are modelled as Go's image.RGBA: a flat byte buffer Pix with a   *)
(* Stride, indexed from 0.  Floating-point values are modelled as exact    *)
(* fractions <<numerator, denominator>> in lowest terms; rounding of       *)
(* float64 is not modelled.                                                *)
(***************************************************************************)
EXTENDS Integers, Sequences, FiniteSets, TLC

VARIABLES
    pc,        \* position of the caller: "build", "call", "workers", "done", ...
    img,       \* the target image handed to the matcher (*image.RGBA)
    mini,      \* the minimap crop the probe is built from (*image.RGBA)
    mask,      \* the alpha mask handed to UpdateFromMinimap (*image.Alpha)
    probe,     \* the TemplateProbe: [Points, Width, Height]
    arg,       \* the arguments of the call under way
    wk,        \* per worker goroutine: its position and its band result
    mutex,     \* sync.Mutex: 0 when free, otherwise 1 + index of the holder
    glob,      \* the workers' shared minimum: [sad, x, y]
    ret,       \* the value the call returned: <<x, y, score>>
    visited,   \* history variable: the candidate offsets scanned by the call
    won,       \* history variable: total and validCount of the winning candidate
    fx,        \* history variable: the fixture (pattern, crop position, mask)
    pin,       \* image preparation: the argument of the operation
    pout       \* image preparation: what the operation returned

vars == <<pc, img, mini, mask, probe, arg, wk, mutex, glob, ret, visited, won, fx, pin, pout>>

(***************************************************************************)
(* Bounds of the model.                                                    *)
(***************************************************************************)
MaxImg == 5       \* target images are (MaxImg-1)..MaxImg pixels wide and high
MaxProbe == 4     \* minimap crops are 3..MaxProbe pixels wide and high
MaxStep == 2      \* step and probeStep range over 1..MaxStep

(***************************************************************************)
(* Program constants.                                                      *)
(***************************************************************************)
ChromaThreshold == 45
ChromaWeight == 15
DiffThreshold == 40
numWorkers == 8
\* math.MaxInt64, the initial "no candidate yet" total.  TLC's integers are
\* 32 bits wide, so the model uses the largest of them; every total the
\* model can compute from 8-bit pixels stays far below it, as in the code.
MaxInt64 == 2147483647

(***************************************************************************)
(* Fractions: float64 values as exact rationals <<n, d>>, d > 0, in lowest *)
(* terms.  <<1, 0>> stands for math.MaxFloat64 (larger than every score).  *)
(***************************************************************************)
abs(n) == IF n < 0 THEN -n ELSE n

RECURSIVE GCD(_, _)
GCD(a, b) == IF b = 0 THEN a ELSE GCD(b, a % b)

Rat(n, d) == LET g == GCD(abs(n), abs(d)) IN
             IF g = 0 THEN <<0, 1>> ELSE <<n \div g, d \div g>>
RatAdd(a, b) == LET g == GCD(a[2], b[2]) IN
                Rat(a[1] * (b[2] \div g) + b[1] * (a[2] \div g), (a[2] \div g) * b[2])
RatMul(a, b) == LET p == Rat(a[1], b[2])
                    q == Rat(b[1], a[2])
                IN <<p[1] * q[1], p[2] * q[2]>>
RatDiv(a, b) == RatMul(a, <<b[2], b[1]>>)

\* n1/d1 < n2/d2 for fractions >= 0, by their continued fractions (no
\* product is formed, so none can leave TLC's integers)
RECURSIVE FracLess(_, _, _, _)
FracLess(n1, d1, n2, d2) ==
    IF d2 = 0 THEN d1 # 0
    ELSE IF d1 = 0 THEN FALSE
    ELSE IF n1 \div d1 # n2 \div d2 THEN n1 \div d1 < n2 \div d2
    ELSE IF n2 % d2 = 0 THEN FALSE
    ELSE IF n1 % d1 = 0 THEN TRUE
    ELSE FracLess(d2, n2 % d2, d1, n1 % d1)
RatLess(a, b) == FracLess(a[1], a[2], b[1], b[2])
MaxFloat64 == <<1, 0>>
Zero == <<0, 1>>

RECURSIVE IntPow(_, _)
IntPow(b, e) == IF e = 0 THEN 1 ELSE b * IntPow(b, e - 1)

(***************************************************************************)
(* image.RGBA and image.Alpha.                                             *)
(***************************************************************************)
\* image.NewRGBA(image.Rect(0, 0, w, h)) filled by colour[<<x, y>>] = <<r,g,b,a>>
MakeRGBA(w, h, colour) ==
    [W |-> w, H |-> h, Stride |-> 4 * w,
     Pix |-> [i \in 0 .. (4 * w * h - 1) |->
                 colour[<<(i \div 4) % w, (i \div 4) \div w>>][(i % 4) + 1]]]

\* image.NewAlpha(image.Rect(0, 0, w, h)) filled by alpha[<<x, y>>]
MakeAlpha(w, h, alpha) ==
    [W |-> w, H |-> h, Stride |-> w,
     Pix |-> [i \in 0 .. (w * h - 1) |-> alpha[<<i % w, i \div w>>]]]

LenPix(im) == Cardinality(DOMAIN im.Pix)

\* the pixel of an RGBA image at (x, y), as <<r, g, b, a>>
PixelAt(im, x, y) ==
    LET o == y * im.Stride + x * 4 IN
    <<im.Pix[o], im.Pix[o + 1], im.Pix[o + 2], im.Pix[o + 3]>>

\* luma of the three bytes at offset off: (3R + 6G + B) / 10
Gray(pix, off) == (pix[off] * 3 + pix[off + 1] * 6 + pix[off + 2]) \div 10

copySubImage(src, minX, minY, w, h) ==
    LET srcBase == minY * src.Stride + minX * 4
        dstStride == 4 * w
    IN [W |-> w, H |-> h, Stride |-> dstStride,
        Pix |-> [i \in 0 .. (4 * w * h - 1) |->
                    src.Pix[srcBase + (i \div dstStride) * src.Stride + (i % dstStride)]]]

(***************************************************************************)
(* Image preparation: EnsureRGBA and DownscaleRGBA.  Here an image also    *)
(* carries its dynamic type (Kind: "RGBA", "NRGBA" or "Gray"), the corner  *)
(* of its bounds (MinX, MinY: not 0 for a sub-image) and the identity of   *)
(* its pixel buffer (Buf).                                                 *)
(***************************************************************************)
BytesPerPixel(kind) == IF kind = "Gray" THEN 1 ELSE 4

\* img.At(X, Y) for (X, Y) inside the bounds, as the colour's fields
At(im, X, Y) ==
    LET o == (Y - im.MinY) * im.Stride + (X - im.MinX) * BytesPerPixel(im.Kind) IN
    IF im.Kind = "Gray" THEN <<im.Pix[o]>>
    ELSE <<im.Pix[o], im.Pix[o + 1], im.Pix[o + 2], im.Pix[o + 3]>>

\* color.RGBAModel.Convert, as dst.Set applies it: an RGBA colour is kept,
\* an NRGBA colour is alpha-premultiplied in 16 bits and cut to 8, a Gray
\* colour becomes opaque grey
ToRGBA(kind, c) ==
    CASE kind = "RGBA" -> c
      [] kind = "NRGBA" -> <<((c[1] * 257 * c[4]) \div 255) \div 256,
                             ((c[2] * 257 * c[4]) \div 255) \div 256,
                             ((c[3] * 257 * c[4]) \div 255) \div 256,
                             c[4]>>
      [] kind = "Gray" -> <<c[1], c[1], c[1], 255>>

\* image.NewRGBA(image.Rect(0, 0, w, h)) into the fresh buffer buf, then
\* filled by colour[<<x, y>>]
NewRGBAFrom(w, h, buf, colour) ==
    [Kind |-> "RGBA", MinX |-> 0, MinY |-> 0, W |-> w, H |-> h, Stride |-> 4 * w,
     Buf |-> buf,
     Pix |-> [i \in 0 .. (4 * w * h - 1) |->
                 colour[<<(i \div 4) % w, (i \div 4) \div w>>][(i % 4) + 1]]]

\* EnsureRGBA without the type test of its first line
EnsureRGBA_copy(im, buf) ==
    LET c == [o \in (0 .. (im.W - 1)) \X (0 .. (im.H - 1)) |->
                  ToRGBA(im.Kind, At(im, im.MinX + o[1], im.MinY + o[2]))]
    IN NewRGBAFrom(im.W, im.H, buf, c)

\* EnsureRGBA(img); buf is the buffer a conversion allocates
EnsureRGBA(im, buf) ==
    IF im.Kind = "RGBA" THEN im
    ELSE LET c == [o \in (0 .. (im.W - 1)) \X (0 .. (im.H - 1)) |->
                  ToRGBA(im.Kind, At(im, im.MinX + o[1], im.MinY + o[2]))]
         IN NewRGBAFrom(im.W, im.H, buf, c)

\* a decimation that keeps the last pixel of each scale x scale block
downscaledPixel_last(im, scale, x, y) ==
    ToRGBA(im.Kind, At(im, im.MinX + x * scale + (scale - 1),
                           im.MinY + y * scale + (scale - 1)))

\* the pixel DownscaleRGBAInto writes at (x, y) of dst
downscaledPixel(im, scale, x, y) ==
    IF im.Kind = "RGBA"
    THEN LET srcRowY == (im.MinY + y * scale) - im.MinY
             srcColX == (im.MinX + x * scale) - im.MinX
             srcOffset == srcRowY * im.Stride + srcColX * 4
         IN <<im.Pix[srcOffset], im.Pix[srcOffset + 1],
              im.Pix[srcOffset + 2], im.Pix[srcOffset + 3]>>
    ELSE ToRGBA(im.Kind, At(im, im.MinX + x * scale, im.MinY + y * scale))

\* DownscaleRGBA(img, scale); buf is the buffer it allocates
DownscaleRGBA(im, scale, buf) ==
    LET newW == im.W \div scale
        newH == im.H \div scale
        c == [o \in (0 .. (newW - 1)) \X (0 .. (newH - 1)) |->
                downscaledPixel(im, scale, o[1], o[2])]
    IN NewRGBAFrom(newW, newH, buf, c)


(***************************************************************************)
(* GenerateCircularMask.  Every float64 the function computes is a         *)
(* multiple of 0.5 (or of 0.25 once squared), which float64 represents     *)
(* exactly; the model keeps them as integers scaled by 2 (by 4 once        *)
(* squared).                                                               *)
(***************************************************************************)
innerRadius == 10

\* 2 * radius: radius := float64(w)/2; if float64(h)/2 < radius { radius = float64(h)/2 }
radius2(w, h) == IF h < w THEN h ELSE w

\* distances taken from the pixel's corner instead of its centre
distSq4_corner(w, h, x, y) ==
    LET dx2 == 2 * x - w
        dy2 == 2 * y - h
    IN dx2 * dx2 + dy2 * dy2

\* 4 * distSq of pixel (x, y): dx := float64(x) - cx + 0.5, cx = float64(w)/2
distSq4(w, h, x, y) ==
    LET dx2 == 2 * x - w + 1
        dy2 == 2 * y - h + 1
    IN dx2 * dx2 + dy2 * dy2

\* a mask that leaves out the pixels exactly at the outer radius
maskAlpha_strict(w, h, x, y) ==
    IF /\ distSq4(w, h, x, y) < radius2(w, h) * radius2(w, h)
       /\ distSq4(w, h, x, y) > 4 * innerRadius * innerRadius
    THEN 255 ELSE 0

\* the alpha GenerateCircularMask sets at (x, y)
maskAlpha(w, h, x, y) ==
    IF /\ distSq4(w, h, x, y) <= radius2(w, h) * radius2(w, h)
       /\ distSq4(w, h, x, y) > 4 * innerRadius * innerRadius
    THEN 255 ELSE 0

GenerateCircularMask(w, h) ==
    MakeAlpha(w, h, [o \in (0 .. (w - 1)) \X (0 .. (h - 1)) |-> maskAlpha(w, h, o[1], o[2])])


(***************************************************************************)
(* Image filters: ApplySpotlightEffect and ApplyVoidFilter, which write    *)
(* into the pixel buffer they are given.                                   *)
(***************************************************************************)
\* luma := (r*3 + g*6 + b) / 10
luma(px) == (px[1] * 3 + px[2] * 6 + px[3]) \div 10

\* what ApplySpotlightEffect leaves of the pixel px = <<r, g, b, a>>
spotlightPixel(px, threshold) ==
    IF px[4] = 0 THEN px
    ELSE IF luma(px) < threshold THEN <<0, 0, 0, 0>>
    ELSE px

\* a filter that also clears the pixels whose luma equals the threshold
voidPixel_le(px, threshold) ==
    IF luma(px) <= threshold THEN <<0, 0, 0, 0>> ELSE px

\* what ApplyVoidFilter leaves of the pixel px = <<r, g, b, a>>
voidPixel(px, threshold) ==
    IF luma(px) < threshold THEN <<0, 0, 0, 0>> ELSE px

\* the buffer after the two loops over y < h, x < w have rewritten each
\* pixel by filter; the bytes of img.Pix that belong to no pixel of the
\* bounds (a sub-image's stride exceeds 4 * w) are not touched
filterPix(im, filter) ==
    [i \in DOMAIN im.Pix |->
        LET y == i \div im.Stride
            x == (i % im.Stride) \div 4
            offset == y * im.Stride + x * 4
        IN IF x < im.W /\ y < im.H
           THEN filter[<<im.Pix[offset], im.Pix[offset + 1],
                         im.Pix[offset + 2], im.Pix[offset + 3]>>][(i - offset) + 1]
           ELSE im.Pix[i]]

\* the pixels stored in the buffer of an RGBA image
Pixels(im) ==
    {<<im.Pix[4 * k], im.Pix[4 * k + 1], im.Pix[4 * k + 2], im.Pix[4 * k + 3]>> :
        k \in 0 .. ((LenPix(im) \div 4) - 1)}

ApplySpotlightEffect(im, threshold) ==
    [im EXCEPT !.Pix = filterPix(im, [px \in Pixels(im) |-> spotlightPixel(px, threshold)])]

ApplyVoidFilter(im, threshold) ==
    [im EXCEPT !.Pix = filterPix(im, [px \in Pixels(im) |-> voidPixel(px, threshold)])]


(***************************************************************************)
(* Probe builder.                                                          *)
(***************************************************************************)
Max2(a, b) == IF a > b THEN a ELSE b
Min2(a, b) == IF a < b THEN a ELSE b

\* the HUD-icon filter of UpdateFromMinimap
isIcon(r, g, b) ==
    \/ r > 100 /\ g > 100 /\ (Min2(r, g) - b) > DiffThreshold
    \/ b > 100 /\ (b - Max2(r, g)) > DiffThreshold

\* the filter without the test of the pixel's alpha
SkipPixel_opaque(im, msk, x, y) ==
    LET offset == y * im.Stride + x * 4 IN
    \/ msk.Pix[y * msk.Stride + x] = 0
    \/ isIcon(im.Pix[offset], im.Pix[offset + 1], im.Pix[offset + 2])

\* does UpdateFromMinimap skip the pixel (x, y)?
SkipPixel(im, msk, x, y) ==
    LET offset == y * im.Stride + x * 4 IN
    \/ msk.Pix[y * msk.Stride + x] = 0
    \/ im.Pix[offset + 3] = 0
    \/ isIcon(im.Pix[offset], im.Pix[offset + 1], im.Pix[offset + 2])

\* the ProbePoint UpdateFromMinimap appends for a retained pixel (x, y)
MakePoint(im, x, y) ==
    LET pix == im.Pix
        rowOffset == y * im.Stride
        offset == rowOffset + x * 4
        r == pix[offset]
        g == pix[offset + 1]
        b == pix[offset + 2]
        maxC == Max2(Max2(r, g), b)
        minC == Min2(Min2(r, g), b)
        gradX == Gray(pix, rowOffset + (x + 1) * 4) - Gray(pix, rowOffset + (x - 1) * 4)
        gradY == Gray(pix, (y + 1) * im.Stride + x * 4) - Gray(pix, (y - 1) * im.Stride + x * 4)
    IN [X |-> x, Y |-> y, R |-> r, G |-> g, B |-> b,
        Sat |-> maxC - minC, GradMag |-> abs(gradX) + abs(gradY)]

\* the interior pixels in scan order: y = 1 .. h-2, then x = 1 .. w-2
InteriorCoords(w, h) ==
    IF w < 3 \/ h < 3 THEN <<>>
    ELSE [k \in 1 .. ((w - 2) * (h - 2)) |->
             <<1 + ((k - 1) % (w - 2)), 1 + ((k - 1) \div (w - 2))>>]

RECURSIVE CollectPoints(_, _, _, _, _)
CollectPoints(im, msk, coords, k, acc) ==
    IF k > Len(coords) THEN acc
    ELSE LET x == coords[k][1]
             y == coords[k][2]
         IN CollectPoints(im, msk, coords, k + 1,
                IF SkipPixel(im, msk, x, y) THEN acc
                ELSE Append(acc, MakePoint(im, x, y)))

\* tp.UpdateFromMinimap(img, mask): the probe after the call (the previous
\* points are dropped by tp.Points[:0])
\* the builder without the assignments of lines 301-302: Width and Height
\* stay what NewTemplateProbe left in them
UpdateFromMinimap_stale(im, msk) ==
    [Points |-> CollectPoints(im, msk, InteriorCoords(im.W, im.H), 1, <<>>),
     Width |-> 0, Height |-> 0]

UpdateFromMinimap(im, msk) ==
    [Points |-> CollectPoints(im, msk, InteriorCoords(im.W, im.H), 1, <<>>),
     Width |-> im.W, Height |-> im.H]

(***************************************************************************)
(* Matching engine, uniform variant: MatchProbe.                           *)
(***************************************************************************)
\* off := baseOffset + (p.Y * imgStride) + (p.X * 4), for the candidate (x, y)
pointOff(im, p, x, y) == y * im.Stride + x * 4 + (p.Y * im.Stride) + (p.X * 4)

\* the per-point bounds test: off < 0 || off+2 >= len(imgPix)
outOfRange(im, off) == off < 0 \/ off + 2 >= LenPix(im)

baseDiff(im, p, off) ==
    abs(im.Pix[off] - p.R) + abs(im.Pix[off + 1] - p.G) + abs(im.Pix[off + 2] - p.B)

chromaPenalty(im, p, off) ==
    LET r == im.Pix[off]
        g == im.Pix[off + 1]
        b == im.Pix[off + 2]
        chromaDiff == abs((p.R - p.G) - (r - g)) + abs((p.B - p.G) - (b - g))
    IN IF chromaDiff > ChromaThreshold
       THEN (chromaDiff - ChromaThreshold) * ChromaWeight
       ELSE 0

satPenalty(im, p, off) ==
    LET r == im.Pix[off]
        g == im.Pix[off + 1]
        b == im.Pix[off + 2]
        mapSat == Max2(Max2(r, g), b) - Min2(Min2(r, g), b)
    IN IF p.Sat > 30 /\ mapSat < 25 THEN (p.Sat - mapSat) * 6 ELSE 0

\* the gradient penalty without the test `mapGradMag < 15`
gradPenalty_signed(im, p, x, y) ==
    LET mapX == x + p.X
        mapY == y + p.Y
        baseOffset == y * im.Stride + x * 4
        offLeft == baseOffset + (p.Y * im.Stride) + ((p.X - 1) * 4)
        offRight == baseOffset + (p.Y * im.Stride) + ((p.X + 1) * 4)
        offUp == baseOffset + ((p.Y - 1) * im.Stride) + (p.X * 4)
        offDown == baseOffset + ((p.Y + 1) * im.Stride) + (p.X * 4)
        n == LenPix(im)
    IN IF /\ p.GradMag > 15
          /\ mapX > 0 /\ mapX < im.W - 1 /\ mapY > 0 /\ mapY < im.H - 1
          /\ offLeft >= 0 /\ offRight + 2 < n
          /\ offUp >= 0 /\ offDown + 2 < n
       THEN LET mapGradMag ==
                    abs(Gray(im.Pix, offRight) - Gray(im.Pix, offLeft))
                    + abs(Gray(im.Pix, offDown) - Gray(im.Pix, offUp))
            IN p.GradMag - mapGradMag
       ELSE 0

\* the gradient penalty halved, as it was before the /2 was removed
gradPenalty_half(im, p, x, y) ==
    LET mapX == x + p.X
        mapY == y + p.Y
        baseOffset == y * im.Stride + x * 4
        offLeft == baseOffset + (p.Y * im.Stride) + ((p.X - 1) * 4)
        offRight == baseOffset + (p.Y * im.Stride) + ((p.X + 1) * 4)
        offUp == baseOffset + ((p.Y - 1) * im.Stride) + (p.X * 4)
        offDown == baseOffset + ((p.Y + 1) * im.Stride) + (p.X * 4)
        n == LenPix(im)
    IN IF /\ p.GradMag > 15
          /\ mapX > 0 /\ mapX < im.W - 1 /\ mapY > 0 /\ mapY < im.H - 1
          /\ offLeft >= 0 /\ offRight + 2 < n
          /\ offUp >= 0 /\ offDown + 2 < n
       THEN LET mapGradMag ==
                    abs(Gray(im.Pix, offRight) - Gray(im.Pix, offLeft))
                    + abs(Gray(im.Pix, offDown) - Gray(im.Pix, offUp))
            IN IF mapGradMag < 15 THEN (p.GradMag - mapGradMag) \div 2 ELSE 0
       ELSE 0

gradPenalty(im, p, x, y) ==
    LET mapX == x + p.X
        mapY == y + p.Y
        baseOffset == y * im.Stride + x * 4
        offLeft == baseOffset + (p.Y * im.Stride) + ((p.X - 1) * 4)
        offRight == baseOffset + (p.Y * im.Stride) + ((p.X + 1) * 4)
        offUp == baseOffset + ((p.Y - 1) * im.Stride) + (p.X * 4)
        offDown == baseOffset + ((p.Y + 1) * im.Stride) + (p.X * 4)
        n == LenPix(im)
    IN IF /\ p.GradMag > 15
          /\ mapX > 0 /\ mapX < im.W - 1 /\ mapY > 0 /\ mapY < im.H - 1
          /\ offLeft >= 0 /\ offRight + 2 < n
          /\ offUp >= 0 /\ offDown + 2 < n
       THEN LET mapGradMag ==
                    abs(Gray(im.Pix, offRight) - Gray(im.Pix, offLeft))
                    + abs(Gray(im.Pix, offDown) - Gray(im.Pix, offUp))
            IN IF mapGradMag < 15 THEN p.GradMag - mapGradMag ELSE 0
       ELSE 0


\* what one in-range point adds to currentSAD
pointCost(im, p, x, y) ==
    LET off == pointOff(im, p, x, y) IN
    baseDiff(im, p, off) + chromaPenalty(im, p, off) + satPenalty(im, p, off)
        + gradPenalty(im, p, x, y)

\* the inner loop of matchRect over the probe points of the candidate (x, y):
\* i is the code's 0-based index, cur = [sad, validCount]; the loop breaks
\* as soon as the running total exceeds localMinSAD
RECURSIVE scanProbe(_, _, _, _, _, _, _, _)
scanProbe(im, points, probeStep, x, y, i, cur, localMinSAD) ==
    IF i >= Len(points) THEN cur
    ELSE LET p == points[i + 1]
             off == pointOff(im, p, x, y)
         IN IF outOfRange(im, off)
            THEN scanProbe(im, points, probeStep, x, y, i + probeStep, cur, localMinSAD)
            ELSE LET nxt == [sad |-> cur.sad + pointCost(im, p, x, y),
                             validCount |-> cur.validCount + 1]
                 IN IF nxt.sad > localMinSAD THEN nxt
                    ELSE scanProbe(im, points, probeStep, x, y, i + probeStep,
                                   nxt, localMinSAD)

\* minRequired := (len(points) * 85) / (probeStep * 100)
minRequired(points, probeStep) == (Len(points) * 85) \div (probeStep * 100)

\* the two candidate loops of matchRect; c holds what the closure captures
\* and the rectangle, best = [x, y, sad] plus two history fields: cnt, the
\* validCount of the candidate that set the minimum, and cands, the
\* candidates scanned so far in the order of the scan
RECURSIVE matchLoop(_, _, _, _)
matchLoop(c, x, y, best) ==
    IF y >= c.endY THEN best
    ELSE IF x >= c.endX THEN matchLoop(c, c.startX, y + c.step, best)
    ELSE LET r == scanProbe(c.img, c.points, c.probeStep, x, y, 0,
                            [sad |-> 0, validCount |-> 0], best.sad)
             seen == Append(best.cands, <<x, y>>)
         IN matchLoop(c, x + c.step, y,
                IF r.validCount < minRequired(c.points, c.probeStep)
                THEN [best EXCEPT !.cands = seen]
                ELSE IF r.sad < best.sad
                THEN [x |-> x, y |-> y, sad |-> r.sad, cnt |-> r.validCount, cands |-> seen]
                ELSE [best EXCEPT !.cands = seen])

matchRect(im, prb, step, probeStep, startX, endX, startY, endY) ==
    matchLoop([img |-> im, points |-> prb.Points, step |-> step, probeStep |-> probeStep,
               startX |-> startX, endX |-> endX, startY |-> startY, endY |-> endY],
              startX, startY,
              [x |-> 0, y |-> 0, sad |-> MaxInt64, cnt |-> 0, cands |-> <<>>])

calcAvgDiff(sad, count) == IF count = 0 THEN Zero ELSE Rat(sad, count * 3)

\* the early returns of MatchProbe: maxX <= 0 || maxY <= 0, validPixels == 0
noSearch(im, prb, probeStep) ==
    \/ im.W - prb.Width <= 0
    \/ im.H - prb.Height <= 0
    \/ Len(prb.Points) \div probeStep = 0

\* MatchProbe(img, probe, step, probeStep, false): <<bestX, bestY, avgDiff>>
MatchProbeSeq(im, prb, step, probeStep) ==
    IF noSearch(im, prb, probeStep) THEN <<0, 0, Zero>>
    ELSE LET m == matchRect(im, prb, step, probeStep,
                            0, im.W - prb.Width, 0, im.H - prb.Height)
         IN <<m.x, m.y, calcAvgDiff(m.sad, Len(prb.Points) \div probeStep)>>

\* one worker's band: rows [sIdx*step, eIdx*step), cut at maxY+1
rowsPerWorker(maxY, step) == (maxY \div step + 1 + numWorkers - 1) \div numWorkers
bandStart(i, maxY, step) == i * rowsPerWorker(maxY, step) * step
\* the band end cut at maxY, as the sequential call passes it
bandEnd_exclusive(i, maxY, step) ==
    LET yEnd == (i + 1) * rowsPerWorker(maxY, step) * step IN
    IF yEnd > maxY THEN maxY ELSE yEnd

bandEnd(i, maxY, step) ==
    LET yEnd == (i + 1) * rowsPerWorker(maxY, step) * step IN
    IF yEnd > maxY THEN maxY + 1 ELSE yEnd

(***************************************************************************)
(* Matching engine, edge-weighted variant: MatchProbeWeighted.  gamma is   *)
(* modelled for the integer exponents the callers use (1, 2, 3).           *)
(***************************************************************************)
\* the weight without its lower limit 0.1
weight_unclamped(p, gamma) == Rat(IntPow(p.GradMag, gamma), IntPow(255, gamma))

\* w := math.Pow(float64(p.GradMag)/255.0, gamma); if w < 0.1 { w = 0.1 }
weight(p, gamma) ==
    LET w == Rat(IntPow(p.GradMag, gamma), IntPow(255, gamma)) IN
    IF RatLess(w, <<1, 10>>) THEN <<1, 10>> ELSE w

\* totalDiff := baseDiff + penalty + satPenalty
totalDiff(im, p, off) ==
    baseDiff(im, p, off) + chromaPenalty(im, p, off) + satPenalty(im, p, off)

\* the precomputation loop: [totalWeight, validPixels] over the sampled points
RECURSIVE sumWeights(_, _, _, _, _)
sumWeights(points, probeStep, gamma, i, acc) ==
    IF i >= Len(points) THEN acc
    ELSE sumWeights(points, probeStep, gamma, i + probeStep,
                    [totalWeight |-> RatAdd(acc.totalWeight, weight(points[i + 1], gamma)),
                     validPixels |-> acc.validPixels + 1])

\* the inner loop of the weighted matchRect: cur = [weightedSAD,
\* localTotalWeight, validCount]; there is no early exit in this variant
RECURSIVE scanProbeW(_, _, _, _, _, _, _, _)
scanProbeW(im, points, probeStep, gamma, x, y, i, cur) ==
    IF i >= Len(points) THEN cur
    ELSE LET p == points[i + 1]
             off == pointOff(im, p, x, y)
             w == weight(p, gamma)
         IN scanProbeW(im, points, probeStep, gamma, x, y, i + probeStep,
                IF outOfRange(im, off) THEN cur
                ELSE [weightedSAD |-> RatAdd(cur.weightedSAD,
                                             RatMul(<<totalDiff(im, p, off), 1>>, w)),
                      localTotalWeight |-> RatAdd(cur.localTotalWeight, w),
                      validCount |-> cur.validCount + 1])

RECURSIVE matchLoopW(_, _, _, _)
matchLoopW(c, x, y, best) ==
    IF y >= c.endY THEN best
    ELSE IF x >= c.endX THEN matchLoopW(c, c.startX, y + c.step, best)
    ELSE LET r == scanProbeW(c.img, c.points, c.probeStep, c.gamma, x, y, 0,
                             [weightedSAD |-> Zero, localTotalWeight |-> Zero,
                              validCount |-> 0])
             seen == Append(best.cands, <<x, y>>)
             normalizedSAD == RatDiv(r.weightedSAD, r.localTotalWeight)
         IN matchLoopW(c, x + c.step, y,
                IF /\ r.validCount >= minRequired(c.points, c.probeStep)
                   /\ RatLess(<<1, 1000>>, r.localTotalWeight)
                   /\ RatLess(normalizedSAD, best.sad)
                THEN [x |-> x, y |-> y, sad |-> normalizedSAD,
                      cnt |-> r.validCount, cands |-> seen]
                ELSE [best EXCEPT !.cands = seen])

\* the weighted matchRect: [x, y, sad] as returned (sad already divided by 3,
\* and <<0, 0, 0>> when no candidate was accepted), with the history fields
matchRectW(im, prb, step, probeStep, gamma, startX, endX, startY, endY) ==
    LET m == matchLoopW([img |-> im, points |-> prb.Points, step |-> step,
                         probeStep |-> probeStep, gamma |-> gamma,
                         startX |-> startX, endX |-> endX,
                         startY |-> startY, endY |-> endY],
                        startX, startY,
                        [x |-> 0, y |-> 0, sad |-> MaxFloat64, cnt |-> 0, cands |-> <<>>])
    IN IF m.sad = MaxFloat64
       THEN [m EXCEPT !.x = 0, !.y = 0, !.sad = Zero]
       ELSE [m EXCEPT !.sad = RatDiv(m.sad, <<3, 1>>)]

\* the early returns of MatchProbeWeighted
noSearchW(im, prb, probeStep, gamma) ==
    LET pre == sumWeights(prb.Points, probeStep, gamma, 0,
                          [totalWeight |-> Zero, validPixels |-> 0])
    IN \/ im.W - prb.Width <= 0
       \/ im.H - prb.Height <= 0
       \/ pre.validPixels = 0
       \/ RatLess(pre.totalWeight, <<1, 1000>>)

\* MatchProbeWeighted(img, probe, step, probeStep, false, gamma)
MatchProbeWeightedSeq(im, prb, step, probeStep, gamma) ==
    IF noSearchW(im, prb, probeStep, gamma) THEN <<0, 0, Zero>>
    ELSE LET m == matchRectW(im, prb, step, probeStep, gamma,
                             0, im.W - prb.Width, 0, im.H - prb.Height)
         IN <<m.x, m.y, m.sad>>

(***************************************************************************)
(* Fixtures: the images, masks and arguments the calls are made with.      *)
(***************************************************************************)
Palette == <<
    <<0, 0, 0, 255>>,         \* 1 black
    <<255, 255, 255, 255>>,   \* 2 white
    <<102, 102, 102, 255>>,   \* 3 grey
    <<170, 0, 0, 255>>,       \* 4 red, saturated
    <<0, 170, 0, 255>>,       \* 5 green, saturated
    <<170, 170, 0, 255>>,     \* 6 yellow: r and g above b, an icon colour
    <<30, 50, 120, 255>>,     \* 7 blue: b above r and g, an icon colour
    <<0, 0, 0, 0>> >>         \* 8 fully transparent

\* "edge" is flat grey on the left and red/green chequered from column 3 on
Patterns == {"distinct", "stripes", "hud", "edge"}

\* the palette index of pixel (x, y) in each pattern
PatternIndex(pat, x, y) ==
    CASE pat = "distinct" -> 1 + ((x * x + 3 * y + x * y * y) % 5)
      [] pat = "stripes"  -> 1 + (x % 5)
      [] pat = "hud"      -> 1 + ((3 * x + 5 * y + x * y) % 8)
      [] pat = "edge"     -> IF x <= 2 THEN 3 ELSE 4 + ((x + y) % 2)

TargetImage(pat, w, h) ==
    MakeRGBA(w, h, [o \in (0 .. (w - 1)) \X (0 .. (h - 1)) |->
                       Palette[PatternIndex(pat, o[1], o[2])]])

FullMask(w, h) == MakeAlpha(w, h, [o \in (0 .. (w - 1)) \X (0 .. (h - 1)) |-> 255])

ImgSizes == (MaxImg - 1) .. MaxImg
ProbeSizes == 3 .. MaxProbe
Steps == 1 .. MaxStep
Gammas == 1 .. 3

NewTemplateProbe == [Points |-> <<>>, Width |-> 0, Height |-> 0]

NoWorkers == [i \in 0 .. (numWorkers - 1) |-> [pc |-> "idle", x |-> 0, y |-> 0, sad |-> 0, cnt |-> 0]]

MaskKinds == {"full", "circular"}
MaskOf(mk, w, h) == IF mk = "full" THEN FullMask(w, h) ELSE GenerateCircularMask(w, h)

\* a caller about to build a probe from the ps x ps crop of a target image at
\* (ox, oy) and to match it against that image
Fixture(pat, w, h, ps, ox, oy, mk) ==
    /\ img = TargetImage(pat, w, h)
    /\ mini = copySubImage(img, ox, oy, ps, ps)
    /\ mask = MaskOf(mk, ps, ps)
    /\ probe = NewTemplateProbe
    /\ fx = [pat |-> pat, ox |-> ox, oy |-> oy, mk |-> mk]

Idle ==
    /\ wk = NoWorkers
    /\ mutex = 0
    /\ glob = [sad |-> 0, x |-> 0, y |-> 0, cnt |-> 0]
    /\ ret = <<>>
    /\ visited = {}
    /\ won = [sad |-> 0, cnt |-> 0]
    /\ pin = <<>>
    /\ pout = <<>>

(***************************************************************************)
(* The sequential calls.                                                   *)
(***************************************************************************)
Init ==
    /\ pc = "build"
    /\ \E pat \in Patterns, w \in ImgSizes, h \in ImgSizes, ps \in ProbeSizes, mk \in MaskKinds :
         \E ox \in 0 .. (w - ps), oy \in 0 .. (h - ps) :
            Fixture(pat, w, h, ps, ox, oy, mk)
    /\ \E step \in Steps, probeStep \in Steps, weighted \in BOOLEAN, gamma \in Gammas :
         /\ (~weighted => gamma = 1)
         /\ arg = [step |-> step, probeStep |-> probeStep, useConcurrency |-> FALSE,
                   weighted |-> weighted, gamma |-> gamma]
    /\ Idle

matchVars == <<wk, mutex, glob, ret, visited, won>>
prepVars == <<pin, pout>>

\* probe.UpdateFromMinimap(mini, mask)
BuildProbe ==
    /\ pc = "build"
    /\ probe' = UpdateFromMinimap(mini, mask)
    /\ pc' = "call"
    /\ UNCHANGED <<img, mini, mask, arg, fx, matchVars, prepVars>>

\* MatchProbe(img, probe, step, probeStep, false)
RunMatchProbe ==
    /\ pc = "call" /\ ~arg.weighted /\ ~arg.useConcurrency
    /\ IF noSearch(img, probe, arg.probeStep)
       THEN /\ ret' = <<0, 0, Zero>>
            /\ UNCHANGED <<visited, won>>
       ELSE \E m \in {matchRect(img, probe, arg.step, arg.probeStep,
                                0, img.W - probe.Width, 0, img.H - probe.Height)} :
               /\ ret' = <<m.x, m.y, calcAvgDiff(m.sad, Len(probe.Points) \div arg.probeStep)>>
               /\ visited' = {m.cands[k] : k \in DOMAIN m.cands}
               /\ won' = [sad |-> m.sad, cnt |-> m.cnt]
    /\ pc' = "done"
    /\ UNCHANGED <<img, mini, mask, probe, arg, fx, wk, mutex, glob, prepVars>>

\* MatchProbeWeighted(img, probe, step, probeStep, false, gamma)
RunMatchProbeWeighted ==
    /\ pc = "call" /\ arg.weighted /\ ~arg.useConcurrency
    /\ IF noSearchW(img, probe, arg.probeStep, arg.gamma)
       THEN /\ ret' = <<0, 0, Zero>>
            /\ UNCHANGED <<visited, won>>
       ELSE \E m \in {matchRectW(img, probe, arg.step, arg.probeStep, arg.gamma,
                                 0, img.W - probe.Width, 0, img.H - probe.Height)} :
               /\ ret' = <<m.x, m.y, m.sad>>
               /\ visited' = {m.cands[k] : k \in DOMAIN m.cands}
               /\ won' = [sad |-> m.sad, cnt |-> m.cnt]
    /\ pc' = "done"
    /\ UNCHANGED <<img, mini, mask, probe, arg, fx, wk, mutex, glob, prepVars>>

Next == BuildProbe \/ RunMatchProbe \/ RunMatchProbeWeighted

Spec == Init /\ [][Next]_vars

(***************************************************************************)
(* The concurrent calls: 8 worker goroutines, one row band each, reporting *)
(* into a minimum guarded by a mutex.  A worker's matchRect reads only the *)
(* image and the probe, which no step writes, so it is modelled as one     *)
(* step together with the mutex.Lock() that follows it.  (A value that is   *)
(* used several times is bound by \E m \in {e} so that it is computed once.)*)
(***************************************************************************)
Workers == 0 .. (numWorkers - 1)

InitConc ==
    /\ pc = "build"
    /\ \E pat \in Patterns, h \in ImgSizes, ps \in ProbeSizes :
         \E oy \in 0 .. (h - ps) :
            Fixture(pat, MaxImg, h, ps, 0, oy, "full")
    /\ \E step \in Steps, weighted \in BOOLEAN :
         arg = [step |-> step, probeStep |-> 1, useConcurrency |-> TRUE,
                weighted |-> weighted, gamma |-> IF weighted THEN 2 ELSE 1]
    /\ Idle

Spawned == [i \in Workers |-> [pc |-> "run", x |-> 0, y |-> 0, sad |-> 0, cnt |-> 0]]

\* MatchProbe(img, probe, step, probeStep, true) up to wg.Wait()
StartMatchProbe ==
    /\ pc = "call" /\ ~arg.weighted /\ arg.useConcurrency
    /\ IF noSearch(img, probe, arg.probeStep)
       THEN /\ ret' = <<0, 0, Zero>>
            /\ pc' = "done"
            /\ UNCHANGED <<wk, glob>>
       ELSE /\ glob' = [sad |-> MaxInt64, x |-> 0, y |-> 0, cnt |-> 0]
            /\ wk' = Spawned
            /\ pc' = "wait"
            /\ UNCHANGED ret
    /\ UNCHANGED <<img, mini, mask, probe, arg, fx, mutex, visited, won, prepVars>>

\* worker i: matchRect over its band, then mutex.Lock()
WorkerScan(i) ==
    /\ pc = "wait" /\ ~arg.weighted /\ wk[i].pc = "run"
    /\ mutex = 0
    /\ \E m \in {matchRect(img, probe, arg.step, arg.probeStep, 0, img.W - probe.Width,
                          bandStart(i, img.H - probe.Height, arg.step), bandEnd(i, img.H - probe.Height, arg.step))} :
          /\ wk' = [wk EXCEPT ![i] = [pc |-> "locked", x |-> m.x, y |-> m.y,
                                      sad |-> m.sad, cnt |-> m.cnt]]
          /\ visited' = visited \cup {m.cands[k] : k \in DOMAIN m.cands}
    /\ mutex' = i + 1
    /\ UNCHANGED <<pc, img, mini, mask, probe, arg, fx, glob, ret, won, prepVars>>

\* a worker that also drops from the shared probe the first point it sampled
WorkerReport_prune(i) ==
    /\ pc = "wait" /\ ~arg.weighted /\ wk[i].pc = "locked"
    /\ mutex = i + 1
    /\ glob' = IF wk[i].sad < glob.sad
               THEN [sad |-> wk[i].sad, x |-> wk[i].x, y |-> wk[i].y, cnt |-> wk[i].cnt]
               ELSE glob
    /\ mutex' = 0
    /\ wk' = [wk EXCEPT ![i].pc = "done"]
    /\ probe' = [probe EXCEPT !.Points = Tail(@)]
    /\ UNCHANGED <<pc, img, mini, mask, arg, fx, ret, visited, won, prepVars>>

\* a worker that stores its band minimum without comparing it
WorkerReport_last(i) ==
    /\ pc = "wait" /\ ~arg.weighted /\ wk[i].pc = "locked"
    /\ mutex = i + 1
    /\ glob' = [sad |-> wk[i].sad, x |-> wk[i].x, y |-> wk[i].y, cnt |-> wk[i].cnt]
    /\ mutex' = 0
    /\ wk' = [wk EXCEPT ![i].pc = "done"]
    /\ UNCHANGED <<pc, img, mini, mask, probe, arg, fx, ret, visited, won, prepVars>>

\* worker i: the critical section, mutex.Unlock() and the deferred wg.Done()
WorkerReport(i) ==
    /\ pc = "wait" /\ ~arg.weighted /\ wk[i].pc = "locked"
    /\ mutex = i + 1
    /\ glob' = IF wk[i].sad < glob.sad
               THEN [sad |-> wk[i].sad, x |-> wk[i].x, y |-> wk[i].y, cnt |-> wk[i].cnt]
               ELSE glob
    /\ mutex' = 0
    /\ wk' = [wk EXCEPT ![i].pc = "done"]
    /\ UNCHANGED <<pc, img, mini, mask, probe, arg, fx, ret, visited, won, prepVars>>

\* wg.Wait() returns; MatchProbe returns globalX, globalY, calcAvgDiff(...)
FinishMatchProbe ==
    /\ pc = "wait" /\ ~arg.weighted
    /\ \A i \in Workers : wk[i].pc = "done"
    /\ ret' = <<glob.x, glob.y, calcAvgDiff(glob.sad, Len(probe.Points) \div arg.probeStep)>>
    /\ won' = [sad |-> glob.sad, cnt |-> glob.cnt]
    /\ pc' = "done"
    /\ UNCHANGED <<img, mini, mask, probe, arg, fx, wk, mutex, glob, visited, prepVars>>

\* MatchProbeWeighted(img, probe, step, probeStep, true, gamma) up to wg.Wait()
StartMatchProbeWeighted ==
    /\ pc = "call" /\ arg.weighted /\ arg.useConcurrency
    /\ IF noSearchW(img, probe, arg.probeStep, arg.gamma)
       THEN /\ ret' = <<0, 0, Zero>>
            /\ pc' = "done"
            /\ UNCHANGED <<wk, glob>>
       ELSE /\ glob' = [sad |-> MaxFloat64, x |-> 0, y |-> 0, cnt |-> 0]
            /\ wk' = Spawned
            /\ pc' = "wait"
            /\ UNCHANGED ret
    /\ UNCHANGED <<img, mini, mask, probe, arg, fx, mutex, visited, won, prepVars>>

WorkerScanWeighted(i) ==
    /\ pc = "wait" /\ arg.weighted /\ wk[i].pc = "run"
    /\ mutex = 0
    /\ \E m \in {matchRectW(img, probe, arg.step, arg.probeStep, arg.gamma,
                           0, img.W - probe.Width,
                           bandStart(i, img.H - probe.Height, arg.step), bandEnd(i, img.H - probe.Height, arg.step))} :
          /\ wk' = [wk EXCEPT ![i] = [pc |-> "locked", x |-> m.x, y |-> m.y,
                                      sad |-> m.sad, cnt |-> m.cnt]]
          /\ visited' = visited \cup {m.cands[k] : k \in DOMAIN m.cands}
    /\ mutex' = i + 1
    /\ UNCHANGED <<pc, img, mini, mask, probe, arg, fx, glob, ret, won, prepVars>>

\* if lSad > 0 && lSad < globalMinWeightedSAD { ... }
WorkerReportWeighted(i) ==
    /\ pc = "wait" /\ arg.weighted /\ wk[i].pc = "locked"
    /\ mutex = i + 1
    /\ glob' = IF RatLess(Zero, wk[i].sad) /\ RatLess(wk[i].sad, glob.sad)
               THEN [sad |-> wk[i].sad, x |-> wk[i].x, y |-> wk[i].y, cnt |-> wk[i].cnt]
               ELSE glob
    /\ mutex' = 0
    /\ wk' = [wk EXCEPT ![i].pc = "done"]
    /\ UNCHANGED <<pc, img, mini, mask, probe, arg, fx, ret, visited, won, prepVars>>

FinishMatchProbeWeighted ==
    /\ pc = "wait" /\ arg.weighted
    /\ \A i \in Workers : wk[i].pc = "done"
    /\ ret' = IF glob.sad = MaxFloat64 THEN <<0, 0, Zero>> ELSE <<glob.x, glob.y, glob.sad>>
    /\ won' = [sad |-> glob.sad, cnt |-> glob.cnt]
    /\ pc' = "done"
    /\ UNCHANGED <<img, mini, mask, probe, arg, fx, wk, mutex, glob, visited, prepVars>>

NextConc ==
    \/ BuildProbe
    \/ StartMatchProbe
    \/ \E i \in Workers : WorkerScan(i)
    \/ \E i \in Workers : WorkerReport(i)
    \/ FinishMatchProbe
    \/ StartMatchProbeWeighted
    \/ \E i \in Workers : WorkerScanWeighted(i)
    \/ \E i \in Workers : WorkerReportWeighted(i)
    \/ FinishMatchProbeWeighted

SpecConc == InitConc /\ [][NextConc]_vars

(***************************************************************************)
(* Hand-built probes.  The fields of TemplateProbe are exported, so a      *)
(* caller can hand the matcher points that lie below the probe's declared  *)
(* Height; these are the only probes for which a point can fall outside    *)
(* the target's pixel buffer.                                              *)
(***************************************************************************)
MaxShift == 3     \* a hand-built probe's points are moved down by 0..MaxShift rows

Translate(prb, dy) ==
    [prb EXCEPT !.Points = [k \in DOMAIN prb.Points |->
                               [prb.Points[k] EXCEPT !.Y = @ + dy]]]

InitGate ==
    /\ pc = "call"
    /\ \E pat \in Patterns, w \in ImgSizes, h \in ImgSizes, ps \in ProbeSizes, dy \in 0 .. MaxShift :
         \E ox \in 0 .. (w - ps), oy \in 0 .. (h - ps) :
            /\ img = TargetImage(pat, w, h)
            /\ mini = copySubImage(img, ox, oy, ps, ps)
            /\ mask = FullMask(ps, ps)
            /\ probe = Translate(UpdateFromMinimap(mini, mask), dy)
            /\ fx = [pat |-> pat, ox |-> ox, oy |-> oy, mk |-> "full"]
    /\ \E probeStep \in Steps, weighted \in BOOLEAN :
         arg = [step |-> 1, probeStep |-> probeStep, useConcurrency |-> FALSE,
                weighted |-> weighted, gamma |-> IF weighted THEN 2 ELSE 1]
    /\ Idle

NextGate == RunMatchProbe \/ RunMatchProbeWeighted

SpecGate == InitGate /\ [][NextGate]_vars

(***************************************************************************)
(* The row bands of a concurrent call, for searches much higher than the   *)
(* fixtures above: pout collects, worker after worker, the rows y that the *)
(* worker's matchRect visits.                                              *)
(***************************************************************************)
MaxRows == 40     \* maxY = imgH - probeH ranges over 1..MaxRows
MaxBandStep == 5  \* step ranges over 1..MaxBandStep here

\* the rows of `for y := startY; y < endY; y += step`
loopRows(startY, endY, step) ==
    {y \in startY .. (endY - 1) : (y - startY) % step = 0}

InitBands ==
    /\ pc = "bands"
    /\ \E maxY \in 1 .. MaxRows, step \in 1 .. MaxBandStep :
          pin = [op |-> "go", maxY |-> maxY, step |-> step]
    /\ pout = <<>>
    /\ img = <<>> /\ mini = <<>> /\ mask = <<>> /\ probe = NewTemplateProbe
    /\ arg = <<>> /\ fx = <<>>
    /\ wk = NoWorkers /\ mutex = 0 /\ glob = <<>> /\ ret = <<>>
    /\ visited = {} /\ won = <<>>

\* the loop body of `for i := 0; i < numWorkers; i++`: worker i = Len(pout)
\* is started on [yStart, yEnd)
StartBand ==
    /\ pc = "bands" /\ Len(pout) < numWorkers
    /\ pout' = Append(pout, loopRows(bandStart(Len(pout), pin.maxY, pin.step),
                                     bandEnd(Len(pout), pin.maxY, pin.step), pin.step))
    /\ UNCHANGED <<pc, pin, img, mini, mask, probe, arg, fx, matchVars>>

NextBands == StartBand

SpecBands == InitBands /\ [][NextBands]_vars

(***************************************************************************)
(* Properties.                                                             *)
(***************************************************************************)
\* the number of probe points a scan at stride probeStep samples
Sampled(prb, probeStep) == (Len(prb.Points) + probeStep - 1) \div probeStep

\* the indices (0-based) of the sampled points
SampledIdx(prb, probeStep) == {i \in 0 .. (Len(prb.Points) - 1) : i % probeStep = 0}

\* the total of candidate (x, y) when all its sampled points are scanned
FullScore(im, prb, probeStep, x, y) ==
    scanProbe(im, prb.Points, probeStep, x, y, 0, [sad |-> 0, validCount |-> 0], MaxInt64).sad

\* the translations of the search space: 0 <= x <= imgW-probeW,
\* 0 <= y <= imgH-probeH, at multiples of step
Lattice(im, prb, step) ==
    {o \in (0 .. (im.W - prb.Width)) \X (0 .. (im.H - prb.Height)) :
        o[1] % step = 0 /\ o[2] % step = 0}

\* the offsets at which every sampled point of the probe equals the pixel under it
ExactOffsets(im, prb, probeStep) ==
    {o \in (0 .. (im.W - prb.Width)) \X (0 .. (im.H - prb.Height)) :
        \A i \in SampledIdx(prb, probeStep) :
            LET off == pointOff(im, prb.Points[i + 1], o[1], o[2]) IN
            ~outOfRange(im, off) /\ baseDiff(im, prb.Points[i + 1], off) = 0}

\* the self-match fixture: the probe was built, under a full mask, from the
\* crop of the target at (fx.ox, fx.oy), holds at least one point, and the
\* crop occurs nowhere else in the target; step = probeStep = 1
SelfMatchFixture ==
    /\ fx.mk = "full" /\ arg.step = 1 /\ arg.probeStep = 1
    /\ Len(probe.Points) > 0
    /\ ExactOffsets(img, probe, 1) = {<<fx.ox, fx.oy>>}

\* the call went past its early returns
Searched ==
    IF arg.weighted THEN ~noSearchW(img, probe, arg.probeStep, arg.gamma)
    ELSE ~noSearch(img, probe, arg.probeStep)

\* C1: on the self-match fixture the sequential MatchProbe returns exactly
\* (ox, oy, 0), for every crop position 0 <= ox <= imgW-pw, 0 <= oy <= imgH-ph.
C1_SelfMatch ==
    (pc = "done" /\ ~arg.weighted /\ ~arg.useConcurrency /\ SelfMatchFixture)
        => ret = <<fx.ox, fx.oy, Zero>>

\* the minimum of the full totals over the candidates a call scanned is
\* attained by one candidate only
NoTie ==
    \A c1, c2 \in visited :
        (/\ c1 # c2
         /\ FullScore(img, probe, arg.probeStep, c1[1], c1[2])
                = FullScore(img, probe, arg.probeStep, c2[1], c2[2]))
        => \E c3 \in visited :
              FullScore(img, probe, arg.probeStep, c3[1], c3[2])
                  < FullScore(img, probe, arg.probeStep, c1[1], c1[2])

\* C2: the concurrent MatchProbe returns the offset and the score of the
\* sequential MatchProbe on the same arguments, whatever the order in which
\* the 8 workers report (stated here for searches without a tie for the
\* minimum, where the order of reporting cannot matter).
C2_ConcurrentAsSequential ==
    (pc = "done" /\ ~arg.weighted /\ arg.useConcurrency /\ NoTie)
        => ret = MatchProbeSeq(img, probe, arg.step, arg.probeStep)

\* how many sampled points of the candidate (x, y) fall outside the pixel buffer
OobCount(im, prb, probeStep, x, y) ==
    Cardinality({i \in SampledIdx(prb, probeStep) :
                    outOfRange(im, pointOff(im, prb.Points[i + 1], x, y))})

\* the call accepted at least one candidate
Accepted == IF arg.weighted THEN won.cnt > 0 ELSE won.sad # MaxInt64

\* C3: the offset returned as best never has more than 15% of its sampled
\* probe points outside the target image.
C3_CoverageGate ==
    (pc = "done" /\ Searched /\ Accepted)
        => OobCount(img, probe, arg.probeStep, ret[1], ret[2]) * 100
               <= 15 * Sampled(probe, arg.probeStep)

\* an empty probe, or a probe that is not smaller than the target
Degenerate ==
    \/ Len(probe.Points) = 0
    \/ probe.Width >= img.W
    \/ probe.Height >= img.H

\* C4: an empty probe or a probe not smaller than the target yields a result
\* that differs from a perfect match at offset (0, 0) with score 0.
C4_NoMatchIsExplicit ==
    (pc = "done" /\ Degenerate) => ret # <<0, 0, Zero>>

\* C5: on the self-match fixture MatchProbeWeighted returns the offset
\* (ox, oy), for each gamma in {1, 2, 3}.
C5_WeightedSelfMatch ==
    (pc = "done" /\ arg.weighted /\ ~arg.useConcurrency /\ SelfMatchFixture)
        => <<ret[1], ret[2]>> = <<fx.ox, fx.oy>>

\* C6: the candidates MatchProbe scans are exactly the translations of the
\* search space, both bounds inclusive.
C6_SearchSpace ==
    (pc = "done" /\ ~arg.weighted /\ Searched)
        => visited = Lattice(img, probe, arg.step)

\* C7: avgDiff is the winning total divided by 3 times the number of probe
\* points matched at the winning candidate.
C7_AvgDiff ==
    (pc = "done" /\ ~arg.weighted /\ Searched /\ Accepted /\ won.cnt > 0)
        => ret[3] = Rat(won.sad, 3 * won.cnt)

(***************************************************************************)
(* Image preparation as a state machine: one call of one operation on an   *)
(* argument drawn in the initial state; EnsureRGBA is then applied again   *)
(* to its own result.                                                      *)
(***************************************************************************)
MaxPrep == 4      \* prepared images are 1..MaxPrep pixels wide and high
MaxScale == 3     \* DownscaleRGBA is called with scale 1..MaxScale
MaxMask == 26     \* masks are 21..MaxMask pixels wide and high

PrepPalette == <<
    <<0, 0, 0, 255>>,
    <<255, 255, 255, 255>>,
    <<200, 100, 50, 128>>,     \* half transparent
    <<100, 40, 250, 3>>,       \* nearly transparent
    <<17, 34, 51, 0>>,         \* transparent
    <<90, 180, 30, 254>> >>

Kinds == {"RGBA", "NRGBA", "Gray"}

\* a w x h image of the given type whose bounds start at (mx, my): for
\* (mx, my) # (0, 0) it is the sub-image of an image with bounds from (0, 0)
PrepImage(kind, w, h, mx, my) ==
    LET bpp == BytesPerPixel(kind)
        stride == bpp * (w + mx)
        base == my * stride + mx * bpp
        byte(j) ==
            LET X == (j % stride) \div bpp
                Y == j \div stride
                c == PrepPalette[1 + ((X + 2 * Y + X * Y) % 6)]
            IN IF kind = "Gray" THEN (c[1] * 3 + c[2] * 6 + c[3]) \div 10
               ELSE c[(j % bpp) + 1]
    IN [Kind |-> kind, MinX |-> mx, MinY |-> my, W |-> w, H |-> h, Stride |-> stride,
        Buf |-> 1,
        Pix |-> [i \in 0 .. (stride * (h + my) - base - 1) |-> byte(base + i)]]

\* the thresholds of the filters: below, at and above the lumas of PrepPalette
\* (0, 30, 79, 125, 138, 255)
Thresholds == {0, 30, 31, 79, 80, 126, 256}

InitPrep ==
    /\ pc = "prep"
    /\ \/ \E kind \in Kinds, w \in 1 .. MaxPrep, h \in 1 .. MaxPrep, m \in 0 .. 1,
             scale \in 1 .. MaxScale, op \in {"EnsureRGBA", "DownscaleRGBA"} :
            /\ (op = "EnsureRGBA" => scale = 1)
            /\ pin = [op |-> op, img |-> PrepImage(kind, w, h, m, m), scale |-> scale]
       \/ \E w \in 21 .. MaxMask, h \in 21 .. MaxMask :
            pin = [op |-> "GenerateCircularMask", w |-> w, h |-> h]
       \/ \E w \in 1 .. MaxPrep, h \in 1 .. MaxPrep, m \in 0 .. 1,
             threshold \in Thresholds, op \in {"ApplySpotlightEffect", "ApplyVoidFilter"} :
            pin = [op |-> op, img |-> PrepImage("RGBA", w, h, m, m), threshold |-> threshold]
    /\ pout = <<>>
    /\ img = <<>> /\ mini = <<>> /\ mask = <<>> /\ probe = NewTemplateProbe
    /\ arg = <<>> /\ fx = <<>>
    /\ wk = NoWorkers /\ mutex = 0 /\ glob = <<>> /\ ret = <<>>
    /\ visited = {} /\ won = <<>>

callVars == <<img, mini, mask, probe, arg, fx, matchVars>>

\* out := EnsureRGBA(img)
CallEnsureRGBA ==
    /\ pc = "prep" /\ pin.op = "EnsureRGBA"
    /\ pout' = <<EnsureRGBA(pin.img, 2)>>
    /\ pc' = "again"
    /\ UNCHANGED <<pin, callVars>>

\* EnsureRGBA(out)
CallEnsureRGBAAgain ==
    /\ pc = "again"
    /\ pout' = Append(pout, EnsureRGBA(pout[1], 3))
    /\ pc' = "prepared"
    /\ UNCHANGED <<pin, callVars>>

\* out := DownscaleRGBA(img, scale)
CallDownscaleRGBA ==
    /\ pc = "prep" /\ pin.op = "DownscaleRGBA"
    /\ pout' = <<DownscaleRGBA(pin.img, pin.scale, 2)>>
    /\ pc' = "prepared"
    /\ UNCHANGED <<pin, callVars>>

\* out := GenerateCircularMask(w, h)
CallGenerateCircularMask ==
    /\ pc = "prep" /\ pin.op = "GenerateCircularMask"
    /\ pout' = <<GenerateCircularMask(pin.w, pin.h)>>
    /\ pc' = "prepared"
    /\ UNCHANGED <<pin, callVars>>

\* ApplySpotlightEffect(img, threshold); pout holds img after the call
CallApplySpotlightEffect ==
    /\ pc = "prep" /\ pin.op = "ApplySpotlightEffect"
    /\ pout' = <<ApplySpotlightEffect(pin.img, pin.threshold)>>
    /\ pc' = "prepared"
    /\ UNCHANGED <<pin, callVars>>

\* ApplyVoidFilter(img, threshold); pout holds img after the call
CallApplyVoidFilter ==
    /\ pc = "prep" /\ pin.op = "ApplyVoidFilter"
    /\ pout' = <<ApplyVoidFilter(pin.img, pin.threshold)>>
    /\ pc' = "prepared"
    /\ UNCHANGED <<pin, callVars>>

NextPrep ==
    \/ CallEnsureRGBA
    \/ CallEnsureRGBAAgain
    \/ CallDownscaleRGBA
    \/ CallGenerateCircularMask
    \/ CallApplySpotlightEffect
    \/ CallApplyVoidFilter

SpecPrep == InitPrep /\ [][NextPrep]_vars

(***************************************************************************)
(* float64 as IEEE 754 binary64 computes it, for the statistics below.     *)
(* A natural number of any size is the sequence of its digits in base      *)
(* Limb, the least significant first and the last one not 0 (0 is the      *)
(* empty sequence).  A float is [neg, m, e], standing for                  *)
(* (-1)^neg * m * 2^e with m of exactly 53 bits, or m = 0 for zero.  Every *)
(* operation rounds the exact result to the nearest float, ties to even.   *)
(* The exponent is not limited: the values computed here stay far from     *)
(* overflow and from subnormal numbers.                                    *)
(***************************************************************************)
Limb == 2 ^ 14

RECURSIVE BigTrim(_)
BigTrim(b) ==
    IF b = <<>> THEN <<>>
    ELSE IF b[Len(b)] # 0 THEN b
    ELSE BigTrim(SubSeq(b, 1, Len(b) - 1))

RECURSIVE BigFromInt(_)
BigFromInt(n) == IF n = 0 THEN <<>> ELSE <<n % Limb>> \o BigFromInt(n \div Limb)

BigDigitAt(b, i) == IF i <= Len(b) THEN b[i] ELSE 0

\* the digits from position i on of a + b + carry
RECURSIVE BigAddFrom(_, _, _, _)
BigAddFrom(a, b, i, carry) ==
    IF i > Len(a) /\ i > Len(b) THEN (IF carry = 0 THEN <<>> ELSE <<carry>>)
    ELSE <<(BigDigitAt(a, i) + BigDigitAt(b, i) + carry) % Limb>>
            \o BigAddFrom(a, b, i + 1, (BigDigitAt(a, i) + BigDigitAt(b, i) + carry) \div Limb)

BigAdd(a, b) == BigAddFrom(a, b, 1, 0)

\* the digits from position i on of a - b - borrow, for a >= b
RECURSIVE BigSubFrom(_, _, _, _)
BigSubFrom(a, b, i, borrow) ==
    IF i > Len(a) THEN <<>>
    ELSE <<(Limb + BigDigitAt(a, i) - BigDigitAt(b, i) - borrow) % Limb>>
            \o BigSubFrom(a, b, i + 1,
                          IF BigDigitAt(a, i) - BigDigitAt(b, i) - borrow < 0 THEN 1 ELSE 0)

BigSub(a, b) == BigTrim(BigSubFrom(a, b, 1, 0))

RECURSIVE BigLessFrom(_, _, _)
BigLessFrom(a, b, i) ==
    IF i = 0 THEN FALSE
    ELSE IF a[i] # b[i] THEN a[i] < b[i]
    ELSE BigLessFrom(a, b, i - 1)

BigLess(a, b) == IF Len(a) # Len(b) THEN Len(a) < Len(b) ELSE BigLessFrom(a, b, Len(a))

\* the digits from position i on of a * d + carry, for one digit d > 0
RECURSIVE BigMulDigitFrom(_, _, _, _)
BigMulDigitFrom(a, d, i, carry) ==
    IF i > Len(a) THEN (IF carry = 0 THEN <<>> ELSE <<carry>>)
    ELSE <<(a[i] * d + carry) % Limb>>
            \o BigMulDigitFrom(a, d, i + 1, (a[i] * d + carry) \div Limb)

BigMulDigit(a, d) == IF d = 0 THEN <<>> ELSE BigMulDigitFrom(a, d, 1, 0)

\* a * Limb^j
BigShlLimbs(a, j) ==
    IF a = <<>> \/ j = 0 THEN a
    ELSE [i \in 1 .. (j + Len(a)) |-> IF i <= j THEN 0 ELSE a[i - j]]

\* a times the number made of the digits i, i + 1, ... of b
RECURSIVE BigMulFrom(_, _, _)
BigMulFrom(a, b, i) ==
    IF i > Len(b) THEN <<>>
    ELSE BigAdd(BigMulDigit(a, b[i]), BigShlLimbs(BigMulFrom(a, b, i + 1), 1))

BigMul(a, b) == BigMulFrom(a, b, 1)

\* the digits 1 .. i of floor((r * Limb^i + a mod Limb^i) / d), one digit d
RECURSIVE BigDivDigitFrom(_, _, _, _)
BigDivDigitFrom(a, d, i, r) ==
    IF i = 0 THEN <<>>
    ELSE Append(BigDivDigitFrom(a, d, i - 1, (r * Limb + a[i]) % d),
                (r * Limb + a[i]) \div d)

\* a * 2^k and floor(a / 2^k)
BigShl(a, k) == BigShlLimbs(BigMulDigit(a, 2 ^ (k % 14)), k \div 14)

BigShrLimbs(a, j) == IF j >= Len(a) THEN <<>> ELSE SubSeq(a, j + 1, Len(a))

BigShr(a, k) ==
    BigTrim(BigDivDigitFrom(BigShrLimbs(a, k \div 14), 2 ^ (k % 14),
                            Len(BigShrLimbs(a, k \div 14)), 0))

\* the number of bits of a
BigBitLen(a) ==
    IF a = <<>> THEN 0
    ELSE 14 * (Len(a) - 1) + Cardinality({k \in 0 .. 13 : 2 ^ k <= a[Len(a)]})

\* the largest digit d + x, x < 2^(k+1), with (d + x) * b <= r
RECURSIVE BigQuotientDigit(_, _, _, _)
BigQuotientDigit(r, b, k, d) ==
    IF k < 0 THEN d
    ELSE IF BigLess(r, BigMulDigit(b, d + 2 ^ k)) THEN BigQuotientDigit(r, b, k - 1, d)
    ELSE BigQuotientDigit(r, b, k - 1, d + 2 ^ k)

\* long division: the digits i .. 1 of a are still to be brought down, q
\* holds the quotient digits found so far and r < b the running remainder
RECURSIVE BigDivFrom(_, _, _, _, _)
BigDivStep(a, b, i, q, r1, d) ==
    BigDivFrom(a, b, i - 1, <<d>> \o q, BigSub(r1, BigMulDigit(b, d)))

BigDivFrom(a, b, i, q, r) ==
    IF i = 0 THEN [q |-> BigTrim(q), r |-> r]
    ELSE BigDivStep(a, b, i, q, BigTrim(<<a[i]>> \o r),
                    BigQuotientDigit(BigTrim(<<a[i]>> \o r), b, 13, 0))

BigDivMod(a, b) == BigDivFrom(a, b, Len(a), <<>>, <<>>)

\* the largest s + x * Limb^j, x < 2^(k+1), whose square is at most a
RECURSIVE BigRootDigit(_, _, _, _)
BigRootTry(a, s, j, k, t) ==
    IF BigLess(a, BigMul(t, t)) THEN BigRootDigit(a, s, j, k - 1)
    ELSE BigRootDigit(a, t, j, k - 1)

BigRootDigit(a, s, j, k) ==
    IF k < 0 THEN s
    ELSE BigRootTry(a, s, j, k, BigAdd(s, BigShlLimbs(<<2 ^ k>>, j)))

\* the integer square root, from its top digit (position j + 1) down
RECURSIVE BigRootFrom(_, _, _)
BigRootFrom(a, s, j) ==
    IF j < 0 THEN s ELSE BigRootFrom(a, BigRootDigit(a, s, j, 13), j - 1)

BigSqrt(a) == BigRootFrom(a, <<>>, Len(a) \div 2)

FZero == [neg |-> FALSE, m |-> <<>>, e |-> 0]

\* q of 53 bits, or 2^53 after a carry out of the rounding
FNormal(neg, q, e) ==
    IF BigBitLen(q) = 54 THEN [neg |-> neg, m |-> BigShr(q, 1), e |-> e + 1]
    ELSE [neg |-> neg, m |-> q, e |-> e]

\* q = floor(m / 2^k) rounded by what is cut off: rem = m mod 2^k, plus a
\* positive fraction when sticky
FRoundCut(neg, q, rem, half, e, sticky) ==
    IF \/ BigLess(half, rem)
       \/ half = rem /\ (sticky \/ q[1] % 2 = 1)
    THEN FNormal(neg, BigAdd(q, <<1>>), e)
    ELSE [neg |-> neg, m |-> q, e |-> e]

FRoundAt(neg, m, k, q, e, sticky) ==
    FRoundCut(neg, q, BigSub(m, BigShl(q, k)), BigShl(<<1>>, k - 1), e + k, sticky)

\* the float nearest to (-1)^neg * (m + s) * 2^e, where 0 <= s < 1 and
\* sticky says that s > 0 (then m has more than 54 bits); ties go to even
FRound(neg, m, e, sticky) ==
    IF m = <<>> THEN FZero
    ELSE IF BigBitLen(m) <= 53
    THEN [neg |-> neg, m |-> BigShl(m, 53 - BigBitLen(m)), e |-> e - (53 - BigBitLen(m))]
    ELSE FRoundAt(neg, m, BigBitLen(m) - 53, BigShr(m, BigBitLen(m) - 53), e, sticky)

\* float64(n) for an int n, and n * 2^e
FFromInt(n) == FRound(n < 0, BigFromInt(abs(n)), 0, FALSE)
FScale(n, e) == FRound(n < 0, BigFromInt(abs(n)), e, FALSE)

FNeg(a) == IF a.m = <<>> THEN a ELSE [a EXCEPT !.neg = ~a.neg]

\* a + b for magnitudes ma, mb of the same unit 2^e
FAddAligned(aneg, ma, bneg, mb, e) ==
    IF aneg = bneg THEN FRound(aneg, BigAdd(ma, mb), e, FALSE)
    ELSE IF ma = mb THEN FZero
    ELSE IF BigLess(ma, mb) THEN FRound(bneg, BigSub(mb, ma), e, FALSE)
    ELSE FRound(aneg, BigSub(ma, mb), e, FALSE)

FAdd(a, b) ==
    IF a.m = <<>> THEN b
    ELSE IF b.m = <<>> THEN a
    ELSE IF a.e <= b.e THEN FAddAligned(a.neg, a.m, b.neg, BigShl(b.m, b.e - a.e), a.e)
    ELSE FAddAligned(a.neg, BigShl(a.m, a.e - b.e), b.neg, b.m, b.e)

FSub(a, b) == FAdd(a, FNeg(b))

FMul(a, b) ==
    IF a.m = <<>> \/ b.m = <<>> THEN FZero
    ELSE FRound(a.neg # b.neg, BigMul(a.m, b.m), a.e + b.e, FALSE)

FRoundDiv(neg, d, e) == FRound(neg, d.q, e, d.r # <<>>)

\* a / b for b # 0: 56 more quotient bits than the mantissas hold
FDiv(a, b) ==
    IF a.m = <<>> THEN FZero
    ELSE FRoundDiv(a.neg # b.neg, BigDivMod(BigShl(a.m, 56), b.m), a.e - b.e - 56)

FRoundSqrt(a, s, e) == FRound(FALSE, s, e, BigMul(s, s) # a)

\* math.Sqrt(a) for a >= 0: the mantissa is first given an even exponent
FSqrt(a) ==
    IF a.m = <<>> THEN FZero
    ELSE IF a.e % 2 = 0
    THEN FRoundSqrt(BigShl(a.m, 56), BigSqrt(BigShl(a.m, 56)), (a.e - 56) \div 2)
    ELSE FRoundSqrt(BigShl(a.m, 57), BigSqrt(BigShl(a.m, 57)), (a.e - 57) \div 2)

\* a < b
FLess(a, b) ==
    IF FSub(a, b).m = <<>> THEN FALSE ELSE FSub(a, b).neg

(***************************************************************************)
(* ComputeZScore, in float64 as the code computes it.                      *)
(***************************************************************************)
\* sum += s for the scores i, i + 1, ...
RECURSIVE sumScores(_, _, _)
sumScores(allScores, i, sum) ==
    IF i > Len(allScores) THEN sum
    ELSE sumScores(allScores, i + 1, FAdd(sum, allScores[i]))

\* diff * diff
FSquare(diff) == FMul(diff, diff)

\* varianceSum += diff * diff, diff := s - mean, for the scores i, i + 1, ...
RECURSIVE sumVariance(_, _, _, _)
sumVariance(allScores, mean, i, varianceSum) ==
    IF i > Len(allScores) THEN varianceSum
    ELSE sumVariance(allScores, mean, i + 1,
                     FAdd(varianceSum, FSquare(FSub(allScores[i], mean))))

\* the float64 constant 0.001
stdDevEpsilon == FDiv(FFromInt(1), FFromInt(1000))

zScore(rank1Score, mean, stdDev) ==
    IF FLess(stdDev, stdDevEpsilon) THEN FZero
    ELSE FDiv(FSub(mean, rank1Score), stdDev)

zScoreAround(rank1Score, allScores, mean) ==
    zScore(rank1Score, mean,
           FSqrt(FDiv(sumVariance(allScores, mean, 1, FZero), FFromInt(Len(allScores)))))

ComputeZScore(rank1Score, allScores) ==
    IF Len(allScores) < 2 THEN FZero
    ELSE zScoreAround(rank1Score, allScores,
                      FDiv(sumScores(allScores, 1, FZero), FFromInt(Len(allScores))))

(***************************************************************************)
(* The statistics as a state machine: one call of ComputeZScore on scores  *)
(* drawn in the initial state.                                             *)
(***************************************************************************)
MaxScores == 5    \* allScores holds 0..MaxScores scores

\* calcAvgDiff(sad, count) in float64, for count > 0
avgDiff64(sad64, count) == FDiv(sad64, FFromInt(count * 3))

\* scores as MatchProbe returns them for a probe of 3 sampled points: of a
\* match, and of a search in which no offset was accepted, where the sum is
\* still math.MaxInt64 and float64(math.MaxInt64) is 2^63
Scores ==
    { avgDiff64(FFromInt(21), 3),
      avgDiff64(FFromInt(100), 3),
      avgDiff64(FScale(1, 63), 3) }

RECURSIVE ScoreLists(_)
ScoreLists(n) ==
    IF n = 0 THEN {<<>>}
    ELSE ScoreLists(n - 1) \cup {Append(l, s) : l \in {k \in ScoreLists(n - 1) : Len(k) = n - 1}, s \in Scores}

InitStats ==
    /\ pc = "stats"
    /\ \E rank1Score \in Scores, allScores \in ScoreLists(MaxScores) :
            pin = [op |-> "ComputeZScore", rank1Score |-> rank1Score, allScores |-> allScores]
    /\ pout = <<>>
    /\ img = <<>> /\ mini = <<>> /\ mask = <<>> /\ probe = NewTemplateProbe
    /\ arg = <<>> /\ fx = <<>>
    /\ wk = NoWorkers /\ mutex = 0 /\ glob = <<>> /\ ret = <<>>
    /\ visited = {} /\ won = <<>>

\* out := ComputeZScore(rank1Score, allScores)
CallComputeZScore ==
    /\ pc = "stats" /\ pin.op = "ComputeZScore"
    /\ pout' = <<ComputeZScore(pin.rank1Score, pin.allScores)>>
    /\ pc' = "scored"
    /\ UNCHANGED <<pin, callVars>>

NextStats == CallComputeZScore

SpecStats == InitStats /\ [][NextStats]_vars

(***************************************************************************)
(* ComputeLocalConsistencyFast.                                            *)
(***************************************************************************)
\* the quadrants with the points on a midline counted to the left and above
quadIdx_strict(prb, p) ==
    (IF p.X > prb.Width \div 2 THEN 1 ELSE 0) + (IF p.Y > prb.Height \div 2 THEN 2 ELSE 0)

\* quadIdx of a probe point: +1 right of halfW, +2 below halfH
quadIdx(prb, p) ==
    (IF p.X >= prb.Width \div 2 THEN 1 ELSE 0) + (IF p.Y >= prb.Height \div 2 THEN 2 ELSE 0)

\* the two tests that make the loop skip the point mapped to (mapX, mapY)
skipSample(im, mapX, mapY) ==
    \/ mapX < 0 \/ mapX >= im.W \/ mapY < 0 \/ mapY >= im.H
    \/ outOfRange(im, mapY * im.Stride + mapX * 4)

\* quadScores[q] += baseDiff; quadCounts[q]++ (q counted from 0)
quadAdd(quad, q, diff) ==
    [scores |-> [quad.scores EXCEPT ![q + 1] = FAdd(@, FFromInt(diff))],
     counts |-> [quad.counts EXCEPT ![q + 1] = @ + 1]]

\* the sampling loop from point i (counted from 1) on; the counts in quad are
\* never negative: they are looked at so that quad is computed at every step
\* and not as one nested expression at the end
RECURSIVE quadScan(_, _, _, _, _, _, _)
quadScan(im, prb, matchX, matchY, step, i, quad) ==
    IF i > Len(prb.Points) \/ quad.counts[1] < 0 THEN quad
    ELSE quadScan(im, prb, matchX, matchY, step, i + step,
            IF skipSample(im, matchX + prb.Points[i].X, matchY + prb.Points[i].Y) THEN quad
            ELSE quadAdd(quad, quadIdx(prb, prb.Points[i]),
                         baseDiff(im, prb.Points[i],
                                  (matchY + prb.Points[i].Y) * im.Stride
                                      + (matchX + prb.Points[i].X) * 4)))

noQuads == [scores |-> <<FZero, FZero, FZero, FZero>>, counts |-> <<0, 0, 0, 0>>]

\* validQuadAvgs: the averages of the quadrants i, i + 1, ... with more than 3 samples
RECURSIVE quadAvgs(_, _)
quadAvgs(quad, i) ==
    IF i > 4 THEN <<>>
    ELSE (IF quad.counts[i] > 3
          THEN <<FDiv(quad.scores[i], FFromInt(quad.counts[i] * 3))>>
          ELSE <<>>) \o quadAvgs(quad, i + 1)

\* sumSq += v * v for the values i, i + 1, ...
RECURSIVE sumSquares(_, _, _)
sumSquares(vs, i, sumSq) ==
    IF i > Len(vs) THEN sumSq
    ELSE sumSquares(vs, i + 1, FAdd(sumSq, FSquare(vs[i])))

\* math.Sqrt(variance) after `if variance < 0 { variance = 0 }`
sqrtClamped(variance) == IF variance.neg THEN FZero ELSE FSqrt(variance)

spread(sum, sumSq, n) ==
    sqrtClamped(FSub(FDiv(sumSq, n), FSquare(FDiv(sum, n))))

quadSpread(validQuadAvgs) ==
    IF Len(validQuadAvgs) < 2 THEN FZero
    ELSE spread(sumScores(validQuadAvgs, 1, FZero), sumSquares(validQuadAvgs, 1, FZero),
                FFromInt(Len(validQuadAvgs)))

\* for step >= 1
ComputeLocalConsistencyFast(im, prb, matchX, matchY, step) ==
    quadSpread(quadAvgs(quadScan(im, prb, matchX, matchY, step, 1, noQuads), 1))

(***************************************************************************)
(* A caller that matches a probe, with or without worker goroutines, and   *)
(* then rates the match found with ComputeLocalConsistencyFast.            *)
(***************************************************************************)
InitFrame ==
    /\ pc = "build"
    /\ \E pat \in Patterns, h \in ImgSizes, ps \in ProbeSizes :
         \E oy \in 0 .. (h - ps) :
            Fixture(pat, MaxImg, h, ps, 0, oy, "full")
    /\ \E step \in Steps, weighted \in BOOLEAN, useConcurrency \in BOOLEAN :
         arg = [step |-> step, probeStep |-> 1, useConcurrency |-> useConcurrency,
                weighted |-> weighted, gamma |-> IF weighted THEN 2 ELSE 1]
    /\ Idle

\* ComputeLocalConsistencyFast(img, probe, bestX, bestY, step) on the match
\* the call before returned
CallComputeLocalConsistencyFast ==
    /\ pc = "done"
    /\ pout' = <<ComputeLocalConsistencyFast(img, probe, ret[1], ret[2], arg.step)>>
    /\ pc' = "rated"
    /\ UNCHANGED <<pin, img, mini, mask, probe, arg, fx, matchVars>>

NextFrame ==
    \/ BuildProbe
    \/ RunMatchProbe
    \/ RunMatchProbeWeighted
    \/ StartMatchProbe
    \/ \E i \in Workers : WorkerScan(i)
    \/ \E i \in Workers : WorkerReport(i)
    \/ FinishMatchProbe
    \/ StartMatchProbeWeighted
    \/ \E i \in Workers : WorkerScanWeighted(i)
    \/ \E i \in Workers : WorkerReportWeighted(i)
    \/ FinishMatchProbeWeighted
    \/ CallComputeLocalConsistencyFast

SpecFrame == InitFrame /\ [][NextFrame]_vars

(***************************************************************************)
(* One probe used over several calls: a caller that keeps a TemplateProbe  *)
(* and, in any order, rebuilds it from one of two minimaps, matches it     *)
(* (both variants) and rates the last match.  pout logs every MatchProbe   *)
(* call: the probe it was given, what it returned, and how many times the  *)
(* probe had been rebuilt by then.                                         *)
(***************************************************************************)
MaxCalls == 5     \* a session makes 0..MaxCalls calls

\* without `tp.Points = tp.Points[:0]`
UpdateFromMinimapOn_keep(tp, im, msk) ==
    [Points |-> CollectPoints(im, msk, InteriorCoords(im.W, im.H), 1, tp.Points),
     Width |-> im.W, Height |-> im.H]

\* tp.UpdateFromMinimap(img, mask) on a probe tp that was used before: tp
\* after the call
UpdateFromMinimapOn(tp, im, msk) ==
    [Points |-> CollectPoints(im, msk, InteriorCoords(im.W, im.H), 1,
                              SubSeq(tp.Points, 1, 0)),
     Width |-> im.W, Height |-> im.H]

\* the caller's two minimaps: the MaxProbe-wide crop at the origin under a
\* full mask, and a second crop under the mask of the fixture
InitSession ==
    /\ pc = "session"
    /\ \E pat \in Patterns, ps \in ProbeSizes, mk \in MaskKinds :
         \E oy \in 0 .. (MaxImg - ps) :
            /\ img = TargetImage(pat, MaxImg, MaxImg)
            /\ fx = [pat |-> pat, ox |-> 0, oy |-> oy, mk |-> mk, ps |-> ps]
    /\ mini = <<>> /\ mask = <<>>
    /\ probe = NewTemplateProbe
    /\ arg = [step |-> 1, probeStep |-> 1, useConcurrency |-> FALSE,
              weighted |-> FALSE, gamma |-> 2]
    /\ wk = NoWorkers /\ mutex = 0 /\ glob = <<>> /\ ret = <<>>
    /\ visited = {} /\ won = <<>>
    /\ pin = [calls |-> 0, updates |-> 0]
    /\ pout = <<>>

InSession == pc = "session" /\ pin.calls < MaxCalls

sessionVars == <<pc, img, arg, fx, wk, mutex, glob, visited, won>>

\* probe.UpdateFromMinimap(mini, mask) with the first minimap
SessionUpdateFirst ==
    /\ InSession
    /\ mini' = copySubImage(img, 0, 0, MaxProbe, MaxProbe)
    /\ mask' = FullMask(MaxProbe, MaxProbe)
    /\ probe' = UpdateFromMinimapOn(probe, mini', mask')
    /\ pin' = [calls |-> pin.calls + 1, updates |-> pin.updates + 1]
    /\ UNCHANGED <<ret, pout, sessionVars>>

\* probe.UpdateFromMinimap(mini, mask) with the second minimap
SessionUpdateSecond ==
    /\ InSession
    /\ mini' = copySubImage(img, fx.ox, fx.oy, fx.ps, fx.ps)
    /\ mask' = MaskOf(fx.mk, fx.ps, fx.ps)
    /\ probe' = UpdateFromMinimapOn(probe, mini', mask')
    /\ pin' = [calls |-> pin.calls + 1, updates |-> pin.updates + 1]
    /\ UNCHANGED <<ret, pout, sessionVars>>

\* MatchProbe(img, probe, step, probeStep, false)
SessionMatchProbe ==
    /\ InSession
    /\ ret' = MatchProbeSeq(img, probe, arg.step, arg.probeStep)
    /\ pout' = Append(pout, [probe |-> probe, ret |-> ret', updates |-> pin.updates])
    /\ pin' = [pin EXCEPT !.calls = @ + 1]
    /\ UNCHANGED <<mini, mask, probe, sessionVars>>

\* MatchProbeWeighted(img, probe, step, probeStep, false, gamma)
SessionMatchProbeWeighted ==
    /\ InSession
    /\ ret' = MatchProbeWeightedSeq(img, probe, arg.step, arg.probeStep, arg.gamma)
    /\ pin' = [pin EXCEPT !.calls = @ + 1]
    /\ UNCHANGED <<mini, mask, probe, pout, sessionVars>>

\* ComputeLocalConsistencyFast(img, probe, bestX, bestY, step) on the last match
SessionRate ==
    /\ InSession /\ ret # <<>>
    /\ ret' = <<ret[1], ret[2], ComputeLocalConsistencyFast(img, probe, ret[1], ret[2], arg.step)>>
    /\ pin' = [pin EXCEPT !.calls = @ + 1]
    /\ UNCHANGED <<mini, mask, probe, pout, sessionVars>>

NextSession ==
    \/ SessionUpdateFirst
    \/ SessionUpdateSecond
    \/ SessionMatchProbe
    \/ SessionMatchProbeWeighted
    \/ SessionRate

SpecSession == InitSession /\ [][NextSession]_vars

(***************************************************************************)
(* A caller that rates an offset (matchX, matchY) it holds, inside or      *)
(* partly outside the target, with ComputeLocalConsistencyFast.            *)
(***************************************************************************)
MaxLocal == 8     \* rated probes come from MaxLocal x MaxLocal minimaps

InitLocal ==
    /\ pc = "done"
    /\ \E pat \in Patterns, ox \in 0 .. 1, oy \in 0 .. 1 :
          /\ img = TargetImage(pat, MaxLocal + 1, MaxLocal + 1)
          /\ mini = copySubImage(img, ox, oy, MaxLocal, MaxLocal)
          /\ mask = FullMask(MaxLocal, MaxLocal)
          /\ probe = UpdateFromMinimap(mini, mask)
          /\ fx = [pat |-> pat, ox |-> ox, oy |-> oy, mk |-> "full"]
    /\ \E matchX \in {-2, 0, MaxLocal \div 2}, matchY \in {-2, 0, MaxLocal \div 2} :
          ret = <<matchX, matchY, Zero>>
    /\ \E step \in Steps :
          arg = [step |-> step, probeStep |-> 1, useConcurrency |-> FALSE,
                 weighted |-> FALSE, gamma |-> 1]
    /\ wk = NoWorkers /\ mutex = 0 /\ glob = <<>>
    /\ visited = {} /\ won = <<>>
    /\ pin = <<>> /\ pout = <<>>

NextLocal == CallComputeLocalConsistencyFast

SpecLocal == InitLocal /\ [][NextLocal]_vars

\* the colour of pixel (x, y), counted from the corner of the bounds, as an
\* RGBA colour
ColourAt(im, x, y) == ToRGBA(im.Kind, At(im, im.MinX + x, im.MinY + y))

\* C8: DownscaleRGBA(img, scale) is floor(srcW/scale) x floor(srcH/scale) and
\* its pixel (x, y) is the source pixel (x*scale, y*scale); with scale = 1 it
\* is the source, pixel for pixel.
C8_Downscale ==
    (pc = "prepared" /\ pin.op = "DownscaleRGBA") =>
        LET out == pout[1] IN
        /\ out.Kind = "RGBA"
        /\ out.W = pin.img.W \div pin.scale
        /\ out.H = pin.img.H \div pin.scale
        /\ \A x \in 0 .. (out.W - 1), y \in 0 .. (out.H - 1) :
              PixelAt(out, x, y) = ColourAt(pin.img, x * pin.scale, y * pin.scale)
        /\ pin.scale = 1 =>
              /\ out.W = pin.img.W /\ out.H = pin.img.H
              /\ \A x \in 0 .. (pin.img.W - 1), y \in 0 .. (pin.img.H - 1) :
                    PixelAt(out, x, y) = ColourAt(pin.img, x, y)

\* a downscale by 2 of a 4 x 4 sub-image that is no *image.RGBA: the result is
\* 2 x 2 and its pixel (1, 1) is not the source's pixel (1, 1)
C8_Witness ==
    /\ pc = "prepared" /\ pin.op = "DownscaleRGBA"
    /\ pin.scale = 2 /\ pin.img.W = 4 /\ pin.img.H = 4
    /\ pin.img.MinX = 1 /\ pin.img.Kind = "NRGBA"
    /\ pout[1].W = 2 /\ pout[1].H = 2
    /\ PixelAt(pout[1], 1, 1) # ColourAt(pin.img, 1, 1)

\* C9: EnsureRGBA applied to its own result returns that result, pixel for
\* pixel, and an image that already is an *image.RGBA comes back as the same
\* buffer with the same contents.
C9_EnsureIdempotent ==
    (pc = "prepared" /\ pin.op = "EnsureRGBA") =>
        /\ pout[2].W = pout[1].W /\ pout[2].H = pout[1].H
        /\ \A x \in 0 .. (pout[1].W - 1), y \in 0 .. (pout[1].H - 1) :
              ColourAt(pout[2], x, y) = ColourAt(pout[1], x, y)
        /\ pin.img.Kind = "RGBA" => pout[1] = pin.img

\* both cases: a converted image, and an RGBA image handed through
C9_Witness ==
    /\ pc = "prepared" /\ pin.op = "EnsureRGBA"
    /\ pin.img.Kind = "NRGBA" /\ pin.img.W = 2 /\ pin.img.H = 2
    /\ pout[1].Buf # pin.img.Buf
    /\ PixelAt(pout[1], 0, 1) # At(pin.img, pin.img.MinX, pin.img.MinY + 1)

\* C10: GenerateCircularMask marks (x, y) 255 exactly when
\* innerRadius^2 < d^2 <= outerRadius^2, d the distance of the pixel centre
\* (x + 1/2, y + 1/2) from the image centre (w/2, h/2), outerRadius =
\* min(w, h)/2, innerRadius = 10, and 0 otherwise.  (Distances times 2.)
C10_CircularMask ==
    (pc = "prepared" /\ pin.op = "GenerateCircularMask") =>
        LET m == pout[1]
            outer2 == Min2(pin.w, pin.h)
            dd(x, y) == (2 * x + 1 - pin.w) * (2 * x + 1 - pin.w)
                        + (2 * y + 1 - pin.h) * (2 * y + 1 - pin.h)
        IN /\ m.W = pin.w /\ m.H = pin.h
           /\ \A x \in 0 .. (pin.w - 1), y \in 0 .. (pin.h - 1) :
                 m.Pix[y * m.Stride + x] =
                    IF 400 < dd(x, y) /\ dd(x, y) <= outer2 * outer2 THEN 255 ELSE 0

\* a mask with a pixel exactly at the outer radius, which is valid
C10_Witness ==
    /\ pc = "prepared" /\ pin.op = "GenerateCircularMask"
    /\ \E x \in 0 .. (pin.w - 1), y \in 0 .. (pin.h - 1) :
          /\ (2 * x + 1 - pin.w) * (2 * x + 1 - pin.w)
                + (2 * y + 1 - pin.h) * (2 * y + 1 - pin.h)
                = Min2(pin.w, pin.h) * Min2(pin.w, pin.h)
          /\ pout[1].Pix[y * pout[1].Stride + x] = 255

\* C11: the mask of GenerateCircularMask(w, h) is centrally symmetric: pixel
\* (x, y) and pixel (w-1-x, h-1-y) have the same validity.
C11_MaskSymmetric ==
    (pc = "prepared" /\ pin.op = "GenerateCircularMask") =>
        LET m == pout[1] IN
        \A x \in 0 .. (pin.w - 1), y \in 0 .. (pin.h - 1) :
            m.Pix[y * m.Stride + x] = m.Pix[(pin.h - 1 - y) * m.Stride + (pin.w - 1 - x)]

\* a mask that is not square, with a valid pixel and an invalid pixel, each
\* away from its mirror image
C11_Witness ==
    /\ pc = "prepared" /\ pin.op = "GenerateCircularMask"
    /\ pin.w # pin.h
    /\ pout[1].Pix[0] = 0
    /\ \E x \in 0 .. (pin.w - 1) :
          /\ 2 * x + 1 # pin.w
          /\ pout[1].Pix[x] = 255
          /\ pout[1].Pix[(pin.h - 1) * pout[1].Stride + (pin.w - 1 - x)] = 255

\* the call was one of the two filters
Filtered == pc = "prepared" /\ pin.op \in {"ApplySpotlightEffect", "ApplyVoidFilter"}

\* C12 as stated: after either filter every pixel whose luma was below t has
\* alpha and R, G, B all zero, and every pixel whose luma was at least t is
\* unchanged.
C12_DarkPixelsCleared ==
    Filtered =>
        \A x \in 0 .. (pin.img.W - 1), y \in 0 .. (pin.img.H - 1) :
            PixelAt(pout[1], x, y) =
                IF luma(PixelAt(pin.img, x, y)) < pin.threshold
                THEN <<0, 0, 0, 0>> ELSE PixelAt(pin.img, x, y)

\* C12 amended: ApplyVoidFilter does as stated; ApplySpotlightEffect does so
\* for the pixels whose alpha was not 0 and leaves a pixel whose alpha was 0
\* as it was, R, G and B included.
C12_DarkPixelsClearedUnlessTransparent ==
    Filtered =>
        \A x \in 0 .. (pin.img.W - 1), y \in 0 .. (pin.img.H - 1) :
            LET old == PixelAt(pin.img, x, y) IN
            PixelAt(pout[1], x, y) =
                IF pin.op = "ApplySpotlightEffect" /\ old[4] = 0 THEN old
                ELSE IF luma(old) < pin.threshold THEN <<0, 0, 0, 0>>
                ELSE old

\* a filtered image with a pixel that was cleared, a pixel whose luma equals
\* the threshold and was kept, and a pixel that was transparent before
C12_Witness ==
    /\ Filtered
    /\ \E x \in 0 .. (pin.img.W - 1), y \in 0 .. (pin.img.H - 1) :
          /\ PixelAt(pin.img, x, y)[4] # 0
          /\ PixelAt(pin.img, x, y) # <<0, 0, 0, 0>>
          /\ PixelAt(pout[1], x, y) = <<0, 0, 0, 0>>
    /\ \E x \in 0 .. (pin.img.W - 1), y \in 0 .. (pin.img.H - 1) :
          /\ luma(PixelAt(pin.img, x, y)) = pin.threshold
          /\ PixelAt(pout[1], x, y) = PixelAt(pin.img, x, y)
    /\ \E x \in 0 .. (pin.img.W - 1), y \in 0 .. (pin.img.H - 1) :
          PixelAt(pin.img, x, y)[4] = 0

\* C13: ComputeZScore returns 0 whenever it is given fewer than 2 scores or
\* scores that are all equal, whatever rank1Score is.
C13_ZeroOnDegenerate ==
    (pc = "scored" /\ pin.op = "ComputeZScore") =>
        ((\/ Len(pin.allScores) < 2
          \/ \A i, j \in 1 .. Len(pin.allScores) : pin.allScores[i] = pin.allScores[j])
            => pout[1] = FZero)

\* C14: no step of MatchProbe, MatchProbeWeighted or
\* ComputeLocalConsistencyFast, sequential or concurrent, changes the target
\* image or the probe, and a step of a worker goroutine changes no shared
\* data but the running minimum with its offset (and the mutex guarding it).
C14_ReadOnly ==
    [][pc # "build" =>
         /\ img' = img
         /\ probe' = probe
         /\ (wk' # wk /\ pc = "wait") => UNCHANGED <<pc, ret, arg, mini, mask, pin, pout>>]_vars

\* a concurrent search whose workers lowered the running minimum has returned
\* and its match has been rated
C14_Witness ==
    /\ pc = "rated"
    /\ arg.useConcurrency /\ ~arg.weighted
    /\ Len(probe.Points) > 0
    /\ glob.sad < MaxInt64
    /\ \A i \in Workers : wk[i].pc = "done"

\* C15: no state is carried between calls: after any sequence of
\* UpdateFromMinimap calls on one probe its points, width and height are
\* those a fresh probe gets from the last call's image and mask, and two
\* sequential MatchProbe calls with equal arguments return equal results
\* whatever was called in between.
C15_NoCarriedState ==
    pc = "session" =>
        /\ mini # <<>> => probe = UpdateFromMinimapOn(NewTemplateProbe, mini, mask)
        /\ \A i, j \in DOMAIN pout : pout[i].probe = pout[j].probe => pout[i].ret = pout[j].ret

\* a probe with points was matched, rebuilt twice, the second time from the
\* minimap it was first built from, and matched again; the other minimap
\* gives another probe
C15_Witness ==
    /\ pc = "session"
    /\ Len(pout) = 2
    /\ pout[1].probe = pout[2].probe
    /\ pout[2].updates >= pout[1].updates + 2
    /\ Len(pout[1].probe.Points) > 0
    /\ mini.W = MaxProbe
    /\ UpdateFromMinimap(copySubImage(img, fx.ox, fx.oy, fx.ps, fx.ps),
                         MaskOf(fx.mk, fx.ps, fx.ps)) # pout[1].probe

\* the luma of the target pixel (x, y)
LumaAt(im, x, y) == luma(PixelAt(im, x, y))

\* what C16 states a probe point p adds to a candidate's score when it is
\* compared with the target pixel (mx, my)
StatedCost(im, p, mx, my) ==
    LET px == PixelAt(im, mx, my)
        chromaDiff == abs((p.R - p.G) - (px[1] - px[2])) + abs((p.B - p.G) - (px[3] - px[2]))
        mapSat == Max2(Max2(px[1], px[2]), px[3]) - Min2(Min2(px[1], px[2]), px[3])
        mapGrad == abs(LumaAt(im, mx + 1, my) - LumaAt(im, mx - 1, my))
                   + abs(LumaAt(im, mx, my + 1) - LumaAt(im, mx, my - 1))
    IN abs(px[1] - p.R) + abs(px[2] - p.G) + abs(px[3] - p.B)
       + (IF chromaDiff > 45 THEN (chromaDiff - 45) * 15 ELSE 0)
       + (IF p.Sat > 30 /\ mapSat < 25 THEN (p.Sat - mapSat) * 6 ELSE 0)
       + (IF p.GradMag > 15 /\ mapGrad < 15 THEN p.GradMag - mapGrad ELSE 0)

\* the stated costs of the sampled points i, i + probeStep, ... (0-based) at
\* the candidate (x, y), added up
RECURSIVE StatedScore(_, _, _, _, _, _)
StatedScore(im, points, probeStep, x, y, i) ==
    IF i >= Len(points) THEN 0
    ELSE StatedCost(im, points[i + 1], x + points[i + 1].X, y + points[i + 1].Y)
         + StatedScore(im, points, probeStep, x, y, i + probeStep)

\* C16: in MatchProbe a sampled probe point adds to a candidate's score the
\* absolute R, G, B differences, plus (chromaDiff - 45) * 15 when chromaDiff
\* exceeds 45, plus (probeSat - mapSat) * 6 when probeSat > 30 and
\* mapSat < 25, plus (probeGrad - mapGrad) when probeGrad > 15 and
\* mapGrad < 15, and nothing else: so for every candidate scanned and every
\* point, and for the total of the candidate returned.
C16_PointCost ==
    (pc = "done" /\ ~arg.weighted /\ Searched) =>
        /\ \A c \in visited : \A i \in SampledIdx(probe, arg.probeStep) :
              pointCost(img, probe.Points[i + 1], c[1], c[2])
                  = StatedCost(img, probe.Points[i + 1],
                               c[1] + probe.Points[i + 1].X, c[2] + probe.Points[i + 1].Y)
        /\ Accepted => won.sad = StatedScore(img, probe.Points, arg.probeStep, ret[1], ret[2], 0)

\* a search that returned a candidate and in which each of the three
\* penalties was added for some point of some candidate
C16_Witness ==
    /\ pc = "done" /\ ~arg.weighted /\ Searched /\ Accepted
    /\ won.sad > 0
    /\ \E c \in visited : \E i \in SampledIdx(probe, arg.probeStep) :
          chromaPenalty(img, probe.Points[i + 1], pointOff(img, probe.Points[i + 1], c[1], c[2])) > 0
    /\ \E c \in visited : \E i \in SampledIdx(probe, arg.probeStep) :
          satPenalty(img, probe.Points[i + 1], pointOff(img, probe.Points[i + 1], c[1], c[2])) > 0
    /\ \E c \in visited : \E i \in SampledIdx(probe, arg.probeStep) :
          gradPenalty(img, probe.Points[i + 1], c[1], c[2]) > 0

\* w = max(0.1, (gradMag / 255)^gamma)
StatedWeight(p, gamma) ==
    IF p.GradMag ^ gamma * 10 < 255 ^ gamma THEN <<1, 10>>
    ELSE Rat(p.GradMag ^ gamma, 255 ^ gamma)

\* the RGB absolute difference plus the chroma and saturation penalties of
\* the probe point p against the target pixel (mx, my)
StatedDiff(im, p, mx, my) ==
    LET px == PixelAt(im, mx, my)
        chromaDiff == abs((p.R - p.G) - (px[1] - px[2])) + abs((p.B - p.G) - (px[3] - px[2]))
        mapSat == Max2(Max2(px[1], px[2]), px[3]) - Min2(Min2(px[1], px[2]), px[3])
    IN abs(px[1] - p.R) + abs(px[2] - p.G) + abs(px[3] - p.B)
       + (IF chromaDiff > 45 THEN (chromaDiff - 45) * 15 ELSE 0)
       + (IF p.Sat > 30 /\ mapSat < 25 THEN (p.Sat - mapSat) * 6 ELSE 0)

\* <<sum of diff * w, sum of w>> over the sampled points i, i + probeStep, ...
\* (0-based) at the candidate (x, y)
RECURSIVE StatedSums(_, _, _, _, _, _, _)
StatedSums(im, points, probeStep, gamma, x, y, i) ==
    IF i >= Len(points) THEN <<Zero, Zero>>
    ELSE LET p == points[i + 1]
             rest == StatedSums(im, points, probeStep, gamma, x, y, i + probeStep)
         IN <<RatAdd(RatMul(<<StatedDiff(im, p, x + p.X, y + p.Y), 1>>, StatedWeight(p, gamma)),
                     rest[1]),
              RatAdd(StatedWeight(p, gamma), rest[2])>>

\* the weighted average of the candidate (x, y)
StatedAverage(im, points, probeStep, gamma, x, y) ==
    LET s == StatedSums(im, points, probeStep, gamma, x, y, 0) IN RatDiv(s[1], s[2])

\* C17: the score MatchProbeWeighted returns for the best candidate is the
\* sum of diff * w divided by the sum of w over the sampled probe points,
\* diff being the RGB absolute difference plus the chroma and saturation
\* penalties and w = max(0.1, (gradMag / 255)^gamma).
C17_WeightedAverage ==
    (pc = "done" /\ arg.weighted /\ Searched /\ Accepted) =>
        ret[3] = StatedAverage(img, probe.Points, arg.probeStep, arg.gamma, ret[1], ret[2])

\* C17 as the code has it: the score returned is that weighted average
\* divided by 3, the number of colour channels.
C17_WeightedAveragePerChannel ==
    (pc = "done" /\ arg.weighted /\ Searched /\ Accepted) =>
        ret[3] = RatDiv(StatedAverage(img, probe.Points, arg.probeStep, arg.gamma,
                                      ret[1], ret[2]), <<3, 1>>)

\* a weighted search with gamma 2 returned a candidate with a positive score
\* for a probe that has a point of the minimum weight and a point above it
C17_Witness ==
    /\ pc = "done" /\ arg.weighted /\ Searched /\ Accepted
    /\ arg.gamma = 2
    /\ RatLess(Zero, ret[3])
    /\ \E i \in SampledIdx(probe, arg.probeStep) : StatedWeight(probe.Points[i + 1], 2) = <<1, 10>>
    /\ \E i \in SampledIdx(probe, arg.probeStep) : StatedWeight(probe.Points[i + 1], 2) # <<1, 10>>

\* a HUD icon as C18 describes it: green, or likewise blue, above the
\* brightness floor and above both other channels by more than the
\* chroma-difference threshold
StatedIcon(px) ==
    \/ px[2] > 100 /\ px[2] - Max2(px[1], px[3]) > DiffThreshold
    \/ px[3] > 100 /\ px[3] - Max2(px[1], px[2]) > DiffThreshold

\* the interior pixels of the minimap that are mask-valid and not transparent
Eligible(im, msk) ==
    {o \in (1 .. (im.W - 2)) \X (1 .. (im.H - 2)) :
        msk.Pix[o[2] * msk.Stride + o[1]] # 0 /\ PixelAt(im, o[1], o[2])[4] # 0}

\* C18: UpdateFromMinimap leaves out of the probe every eligible pixel that is
\* a HUD icon (green or blue dominating by more than the threshold, above
\* the brightness floor) and retains every other eligible pixel.
C18_IconFilter ==
    pc = "call" =>
        {<<probe.Points[k].X, probe.Points[k].Y>> : k \in DOMAIN probe.Points}
            = {o \in Eligible(mini, mask) : ~StatedIcon(PixelAt(mini, o[1], o[2]))}

\* C19: every point of a probe UpdateFromMinimap built from a w x h image has
\* 1 <= x <= w-2 and 1 <= y <= h-2 and comes from a pixel whose mask value
\* and alpha are both non-zero; when every pixel is filtered out the probe
\* has no points.
C19_InteriorPoints ==
    pc = "call" =>
        /\ \A k \in DOMAIN probe.Points :
              LET p == probe.Points[k] IN
              /\ 1 <= p.X /\ p.X <= mini.W - 2
              /\ 1 <= p.Y /\ p.Y <= mini.H - 2
              /\ mask.Pix[p.Y * mask.Stride + p.X] # 0
              /\ PixelAt(mini, p.X, p.Y)[4] # 0
        /\ (\A o \in (1 .. (mini.W - 2)) \X (1 .. (mini.H - 2)) : SkipPixel(mini, mask, o[1], o[2]))
              => probe.Points = <<>>

\* a probe with points, built from a minimap one of whose interior pixels is
\* transparent under a non-zero mask value
C19_Witness ==
    /\ pc = "call"
    /\ Len(probe.Points) > 0
    /\ \E o \in (1 .. (mini.W - 2)) \X (1 .. (mini.H - 2)) :
          /\ PixelAt(mini, o[1], o[2])[4] = 0
          /\ mask.Pix[o[2] * mask.Stride + o[1]] # 0

\* the sampled points (0-based indices) that correspond to a pixel of the
\* target at the offset (matchX, matchY)
InBoundsIdx(im, prb, matchX, matchY, step) ==
    {i \in SampledIdx(prb, step) :
        /\ 0 <= matchX + prb.Points[i + 1].X /\ matchX + prb.Points[i + 1].X < im.W
        /\ 0 <= matchY + prb.Points[i + 1].Y /\ matchY + prb.Points[i + 1].Y < im.H}

\* the quadrants, named by <<right of the vertical midline, below the
\* horizontal midline>>
Quadrants == BOOLEAN \X BOOLEAN

QuadrantOf(prb, p) == <<p.X >= prb.Width \div 2, p.Y >= prb.Height \div 2>>

\* the absolute R, G, B differences of the points in the set S of indices,
\* added up
RECURSIVE DiffSum(_, _, _, _, _)
DiffSum(im, prb, matchX, matchY, S) ==
    IF S = {} THEN 0
    ELSE LET i == CHOOSE k \in S : \A l \in S : k <= l
             p == prb.Points[i + 1]
             px == PixelAt(im, matchX + p.X, matchY + p.Y)
         IN abs(px[1] - p.R) + abs(px[2] - p.G) + abs(px[3] - p.B)
            + DiffSum(im, prb, matchX, matchY, S \ {i})

RECURSIVE SeqProduct(_)
SeqProduct(s) == IF s = <<>> THEN 1 ELSE Head(s) * SeqProduct(Tail(s))

RECURSIVE SeqSum(_)
SeqSum(s) == IF s = <<>> THEN 0 ELSE Head(s) + SeqSum(Tail(s))

RECURSIVE BigSumSquares(_)
BigSumSquares(s) ==
    IF s = <<>> THEN <<>>
    ELSE BigAdd(BigMul(BigFromInt(Head(s)), BigFromInt(Head(s))), BigSumSquares(Tail(s)))

\* |a - b| <= c for natural numbers of any size
BigWithin(a, b, c) ==
    IF BigLess(a, b) THEN ~BigLess(c, BigSub(b, a)) ELSE ~BigLess(c, BigSub(a, b))

\* is the float r, squared, within 2^-30 of the variance of the fractions
\* sums[k] / (3 * counts[k])?  With N == product of the counts and
\* a[k] == sums[k] * N / counts[k], the variance is
\* (n * sum of a[k]^2 - (sum of a[k])^2) / (3 * n * N)^2.
IsSpreadOf(r, sums, counts) ==
    LET n == Len(sums)
        N == SeqProduct(counts)
        a == [k \in 1 .. n |-> sums[k] * (N \div counts[k])]
        P == BigSub(BigMulDigit(BigSumSquares(a), n),
                    BigMul(BigFromInt(SeqSum(a)), BigFromInt(SeqSum(a))))
        Q == BigMul(BigFromInt(3 * n * N), BigFromInt(3 * n * N))
        r2 == IF r.m = <<>> THEN <<>> ELSE BigMul(r.m, r.m)
    IN IF r.m = <<>> THEN ~BigLess(Q, BigShl(P, 30))
       ELSE /\ r.e < 0
            /\ BigWithin(BigShl(BigMul(r2, Q), 30), BigShl(P, 30 - 2 * r.e),
                         BigShl(Q, - 2 * r.e))

\* the quadrants with more than 3 samples, in a fixed order
KeptQuadrants(im, prb, matchX, matchY, step) ==
    SelectSeq(<<<<FALSE, FALSE>>, <<TRUE, FALSE>>, <<FALSE, TRUE>>, <<TRUE, TRUE>>>>,
              LAMBDA q : Cardinality({i \in InBoundsIdx(im, prb, matchX, matchY, step) :
                                         QuadrantOf(prb, prb.Points[i + 1]) = q}) > 3)

\* C20: ComputeLocalConsistencyFast puts every sampled probe point that
\* corresponds to a pixel of the target into the one quadrant its position
\* relative to the midlines (width/2, height/2) gives, leaves out the
\* quadrants with 3 or fewer samples, and returns the standard deviation of
\* the mean differences of the quadrants left, which is 0 when fewer than 2
\* are left.  (The mean differences are per colour channel; the standard
\* deviation is met to within 2^-30 of its square.)
C20_QuadrantSpread ==
    pc = "rated" =>
        LET members(q) == {i \in InBoundsIdx(img, probe, ret[1], ret[2], arg.step) :
                              QuadrantOf(probe, probe.Points[i + 1]) = q}
            kept == KeptQuadrants(img, probe, ret[1], ret[2], arg.step)
        IN IF Len(kept) < 2 THEN pout[1] = FZero
           ELSE IsSpreadOf(pout[1],
                           [k \in DOMAIN kept |-> DiffSum(img, probe, ret[1], ret[2], members(kept[k]))],
                           [k \in DOMAIN kept |-> Cardinality(members(kept[k]))])

\* an offset partly outside the target was rated from at least 2 quadrants,
\* with a quadrant left out for having 1 to 3 samples, and the result is
\* not 0
C20_Witness ==
    /\ pc = "rated"
    /\ Len(KeptQuadrants(img, probe, ret[1], ret[2], arg.step)) \in {2, 3}
    /\ \E q \in Quadrants :
          Cardinality({i \in InBoundsIdx(img, probe, ret[1], ret[2], arg.step) :
                          QuadrantOf(probe, probe.Points[i + 1]) = q}) \in 1 .. 3
    /\ Cardinality(InBoundsIdx(img, probe, ret[1], ret[2], arg.step))
          < Sampled(probe, arg.step)
    /\ pout[1] # FZero

\* the least of the band minima the workers hold
RECURSIVE LeastBandSad(_)
LeastBandSad(i) ==
    IF i = 0 THEN wk[0].sad ELSE Min2(wk[i].sad, LeastBandSad(i - 1))

C22_BandsPartition ==
    pc = "bands" =>
        /\ \A i, j \in DOMAIN pout : i # j => pout[i] \cap pout[j] = {}
        /\ \A i \in DOMAIN pout : bandStart(i - 1, pin.maxY, pin.step) % pin.step = 0
        /\ \A i \in DOMAIN pout : \A y \in pout[i] : y % pin.step = 0 /\ y <= pin.maxY
        /\ Len(pout) = numWorkers =>
              UNION {pout[i] : i \in DOMAIN pout}
                  = {y \in 0 .. pin.maxY : y % pin.step = 0}

\* all 8 workers are started, on a search whose last row maxY is a lattice
\* row, with bands of several rows and a worker that gets none
C22_Witness ==
    /\ pc = "bands" /\ Len(pout) = numWorkers
    /\ pin.step > 1 /\ pin.maxY % pin.step = 0
    /\ Cardinality(pout[1]) > 1
    /\ pout[numWorkers] = {}
    /\ \E i \in DOMAIN pout : pin.maxY \in pout[i]

\* C23: the concurrent MatchProbeWeighted returns the offset and the score
\* of the sequential MatchProbeWeighted on the same arguments, also when
\* the best candidate's score is exactly 0.
C23_WeightedConcurrentAsSequential ==
    (pc = "done" /\ arg.weighted) =>
        ret = MatchProbeWeightedSeq(img, probe, arg.step, arg.probeStep, arg.gamma)

(***************************************************************************)
(* matchRect of MatchProbe, one loop iteration at a time.  pin holds the   *)
(* closure's locals: the rectangle, the candidate (x, y), the index i of   *)
(* the point loop, currentSAD, validCount, localMinSAD, localX, localY.    *)
(* pout logs every candidate the scan has finished with, in order, as      *)
(* [x, y, sad, validCount, broke].  pc is "call" before the call, "point"  *)
(* at the head of the point loop, "gate" after it, "done" on return.       *)
(* The scan is either the sequential one, matchRect(0, maxX, 0, maxY), or  *)
(* the band of one worker of the concurrent call (pin.worker >= 0).        *)
(***************************************************************************)
MaxScanImg == 7      \* targets are (MaxScanImg-1) or MaxScanImg pixels square
MaxScanProbe == 5    \* probes are cut from crops of (MaxScanProbe-1) or MaxScanProbe pixels
MaxBand == 1         \* the bands of the workers 0..MaxBand are scanned

ScanImgSizes == (MaxScanImg - 1) .. MaxScanImg
ScanProbeSizes == (MaxScanProbe - 1) .. MaxScanProbe

InitScan ==
    /\ pc = "call"
    /\ \E pat \in Patterns, w \in ScanImgSizes, ps \in ScanProbeSizes, dy \in {0, MaxShift} :
         \E ox \in 0 .. (w - ps), oy \in 0 .. (w - ps) :
            /\ img = TargetImage(pat, w, w)
            /\ mini = copySubImage(img, ox, oy, ps, ps)
            /\ mask = FullMask(ps, ps)
            /\ probe = Translate(UpdateFromMinimap(mini, mask), dy)
            /\ fx = [pat |-> pat, ox |-> ox, oy |-> oy, mk |-> "full"]
    /\ \E step \in Steps, probeStep \in Steps, worker \in -1 .. MaxBand :
         /\ arg = [step |-> step, probeStep |-> probeStep, useConcurrency |-> worker >= 0,
                   weighted |-> FALSE, gamma |-> 1]
         /\ pin = [worker |-> worker]
    /\ pout = <<>>
    /\ wk = NoWorkers /\ mutex = 0 /\ glob = [sad |-> 0, x |-> 0, y |-> 0, cnt |-> 0]
    /\ ret = <<>> /\ visited = {} /\ won = [sad |-> 0, cnt |-> 0]

scanVars == <<img, mini, mask, probe, arg, fx, wk, mutex, glob, visited, won>>

\* the locals at the head of the point loop of candidate (x, y)
atCandidate(loc, x, y) ==
    [loc EXCEPT !.x = x, !.y = y, !.i = 0, !.currentSAD = 0, !.validCount = 0]

\* what the scan returns: the sequential call averages the minimum, a worker
\* hands the raw band minimum to the reduction
scanResult(loc) ==
    IF loc.worker < 0
    THEN <<loc.localX, loc.localY,
           calcAvgDiff(loc.localMinSAD, Len(probe.Points) \div arg.probeStep)>>
    ELSE <<loc.localX, loc.localY, loc.localMinSAD>>

\* the call up to the head of the first point loop: the early returns, the
\* rectangle of the scan, localMinSAD := math.MaxInt64
StartScan ==
    /\ pc = "call"
    /\ IF noSearch(img, probe, arg.probeStep)
       THEN /\ pc' = "done" /\ ret' = <<0, 0, Zero>> /\ pin' = pin
       ELSE LET maxX == img.W - probe.Width
                maxY == img.H - probe.Height
                loc == [worker |-> pin.worker,
                        startX |-> 0, endX |-> maxX,
                        startY |-> IF pin.worker < 0 THEN 0
                                   ELSE bandStart(pin.worker, maxY, arg.step),
                        endY |-> IF pin.worker < 0 THEN maxY
                                 ELSE bandEnd(pin.worker, maxY, arg.step),
                        x |-> 0, y |-> 0, i |-> 0, currentSAD |-> 0, validCount |-> 0,
                        localMinSAD |-> MaxInt64, localX |-> 0, localY |-> 0]
            IN IF loc.startY < loc.endY
               THEN /\ pc' = "point" /\ ret' = ret
                    /\ pin' = atCandidate(loc, loc.startX, loc.startY)
               ELSE /\ pc' = "done" /\ ret' = scanResult(loc) /\ pin' = loc
    /\ UNCHANGED <<pout, scanVars>>

\* one iteration of the point loop that gives up at half the best total
ScanPoint_eager ==
    /\ pc = "point" /\ pin.i < Len(probe.Points)
    /\ LET p == probe.Points[pin.i + 1]
           off == pointOff(img, p, pin.x, pin.y)
       IN IF outOfRange(img, off)
          THEN /\ pin' = [pin EXCEPT !.i = @ + arg.probeStep]
               /\ pc' = "point"
          ELSE LET sad == pin.currentSAD + pointCost(img, p, pin.x, pin.y) IN
               IF sad > pin.localMinSAD \div 2
               THEN /\ pin' = [pin EXCEPT !.currentSAD = sad, !.validCount = @ + 1]
                    /\ pc' = "gate"
               ELSE /\ pin' = [pin EXCEPT !.currentSAD = sad, !.validCount = @ + 1,
                                          !.i = @ + arg.probeStep]
                    /\ pc' = "point"
    /\ UNCHANGED <<ret, pout, scanVars>>

\* one iteration of `for i := 0; i < len(points); i += probeStep`
ScanPoint ==
    /\ pc = "point" /\ pin.i < Len(probe.Points)
    /\ LET p == probe.Points[pin.i + 1]
           off == pointOff(img, p, pin.x, pin.y)
       IN IF outOfRange(img, off)
          THEN /\ pin' = [pin EXCEPT !.i = @ + arg.probeStep]
               /\ pc' = "point"
          ELSE LET sad == pin.currentSAD + pointCost(img, p, pin.x, pin.y) IN
               IF sad > pin.localMinSAD
               THEN /\ pin' = [pin EXCEPT !.currentSAD = sad, !.validCount = @ + 1]
                    /\ pc' = "gate"
               ELSE /\ pin' = [pin EXCEPT !.currentSAD = sad, !.validCount = @ + 1,
                                          !.i = @ + arg.probeStep]
                    /\ pc' = "point"
    /\ UNCHANGED <<ret, pout, scanVars>>

\* the point loop ends because i reached len(points)
EndPoints ==
    /\ pc = "point" /\ pin.i >= Len(probe.Points)
    /\ pc' = "gate"
    /\ UNCHANGED <<pin, ret, pout, scanVars>>

\* the step to the next candidate with `<=` in the comparison of line 555
NextCandidate_last ==
    /\ pc = "gate"
    /\ LET loc == IF pin.validCount < minRequired(probe.Points, arg.probeStep) THEN pin
                  ELSE IF pin.currentSAD <= pin.localMinSAD
                  THEN [pin EXCEPT !.localMinSAD = pin.currentSAD,
                                   !.localX = pin.x, !.localY = pin.y]
                  ELSE pin
       IN /\ pout' = Append(pout, [x |-> pin.x, y |-> pin.y, sad |-> pin.currentSAD,
                                   validCount |-> pin.validCount,
                                   broke |-> pin.i < Len(probe.Points)])
          /\ IF pin.x + arg.step < pin.endX
             THEN /\ pin' = atCandidate(loc, pin.x + arg.step, pin.y)
                  /\ pc' = "point" /\ ret' = ret
             ELSE IF pin.y + arg.step < pin.endY
             THEN /\ pin' = atCandidate(loc, pin.startX, pin.y + arg.step)
                  /\ pc' = "point" /\ ret' = ret
             ELSE /\ pin' = loc
                  /\ pc' = "done" /\ ret' = scanResult(loc)
    /\ UNCHANGED scanVars

\* after the point loop: the coverage gate, the comparison with localMinSAD,
\* and the step of the x and y loops to the next candidate or to the return
NextCandidate ==
    /\ pc = "gate"
    /\ LET loc == IF pin.validCount < minRequired(probe.Points, arg.probeStep) THEN pin
                  ELSE IF pin.currentSAD < pin.localMinSAD
                  THEN [pin EXCEPT !.localMinSAD = pin.currentSAD,
                                   !.localX = pin.x, !.localY = pin.y]
                  ELSE pin
       IN /\ pout' = Append(pout, [x |-> pin.x, y |-> pin.y, sad |-> pin.currentSAD,
                                   validCount |-> pin.validCount,
                                   broke |-> pin.i < Len(probe.Points)])
          /\ IF pin.x + arg.step < pin.endX
             THEN /\ pin' = atCandidate(loc, pin.x + arg.step, pin.y)
                  /\ pc' = "point" /\ ret' = ret
             ELSE IF pin.y + arg.step < pin.endY
             THEN /\ pin' = atCandidate(loc, pin.startX, pin.y + arg.step)
                  /\ pc' = "point" /\ ret' = ret
             ELSE /\ pin' = loc
                  /\ pc' = "done" /\ ret' = scanResult(loc)
    /\ UNCHANGED scanVars

NextScan == StartScan \/ ScanPoint \/ EndPoints \/ NextCandidate

SpecScan == InitScan /\ [][NextScan]_vars

\* the step-by-step scan returns what matchRect returns
ScanAsMatchRect ==
    (pc = "done" /\ Searched) =>
        LET m == matchRect(img, probe, arg.step, arg.probeStep,
                           pin.startX, pin.endX, pin.startY, pin.endY)
        IN /\ <<m.x, m.y, m.sad>> = <<pin.localX, pin.localY, pin.localMinSAD>>
           /\ m.cands = [k \in DOMAIN pout |-> <<pout[k].x, pout[k].y>>]
           /\ (pin.worker < 0 => ret = MatchProbeSeq(img, probe, arg.step, arg.probeStep))

\* the k-th finished candidate was scanned to the end and passed the gate
Completed(k) ==
    ~pout[k].broke /\ pout[k].validCount >= minRequired(probe.Points, arg.probeStep)

\* the least total among the candidates completed before the k-th of the
\* scan, math.MaxInt64 when there is none
BestBefore(k) ==
    LET S == {pout[j].sad : j \in {n \in 1 .. (k - 1) : Completed(n)}}
    IN IF S = {} THEN MaxInt64 ELSE CHOOSE m \in S : \A n \in S : m <= n

\* C24: while the points of one candidate are scanned the running sum never
\* decreases, every base difference and every penalty added being >= 0, and
\* a candidate is abandoned only at a point where its running sum is
\* strictly greater than the best total the scan has found so far.
C24_MonotoneAndAbandon ==
    /\ [][pc = "point" => pin'.currentSAD >= pin.currentSAD]_vars
    /\ []((pc = "point" /\ pin.i < Len(probe.Points)) =>
            LET p == probe.Points[pin.i + 1]
                off == pointOff(img, p, pin.x, pin.y)
            IN outOfRange(img, off)
               \/ /\ baseDiff(img, p, off) >= 0
                  /\ chromaPenalty(img, p, off) >= 0
                  /\ satPenalty(img, p, off) >= 0
                  /\ gradPenalty(img, p, pin.x, pin.y) >= 0)
    /\ [][(pc = "point" /\ pc' = "gate" /\ pin'.i < Len(probe.Points)) =>
             /\ pin.currentSAD <= BestBefore(Len(pout) + 1)
             /\ pin'.currentSAD > BestBefore(Len(pout) + 1)]_vars
    /\ [](\A k \in DOMAIN pout : pout[k].broke => pout[k].sad > BestBefore(k))

\* a scan that abandoned a candidate after at least two of its points, one
\* of which added a penalty, and before its last sampled point
C24_Witness ==
    /\ pc \in {"point", "gate", "done"}
    /\ pc = "gate" /\ pin.i < Len(probe.Points) - arg.probeStep
    /\ pin.validCount >= 2
    /\ pin.currentSAD > pin.localMinSAD
    /\ pin.localMinSAD < MaxInt64
    /\ \E i \in 0 .. pin.i :
          /\ i % arg.probeStep = 0
          /\ ~outOfRange(img, pointOff(img, probe.Points[i + 1], pin.x, pin.y))
          /\ pointCost(img, probe.Points[i + 1], pin.x, pin.y)
                > baseDiff(img, probe.Points[i + 1],
                           pointOff(img, probe.Points[i + 1], pin.x, pin.y))

(***************************************************************************)
(* The calls under a scheduler that keeps running whatever can run: the    *)
(* calling goroutine, and after the fan-out the 8 workers, none of which   *)
(* waits for anything but the mutex.  matchRect reads nothing a worker     *)
(* writes, so what each scan returns is fixed when the call starts: pin    *)
(* holds whether the call gets past its early returns, the result of the   *)
(* sequential scan and that of each worker's band.                         *)
(***************************************************************************)
\* the value a score variable holds before the call assigns it: the zero of
\* its type, int in MatchProbe and float64 in MatchProbeWeighted
noScore == IF arg.weighted THEN Zero ELSE 0

\* math.MaxInt64, resp. math.MaxFloat64
maxScore == IF arg.weighted THEN MaxFloat64 ELSE MaxInt64

\* matchRect(startX, endX, startY, endY) of the variant called, as [x, y, sad, cnt]
scanOf(startY, endY) ==
    LET m == IF arg.weighted
             THEN matchRectW(img, probe, arg.step, arg.probeStep, arg.gamma,
                             0, img.W - probe.Width, startY, endY)
             ELSE matchRect(img, probe, arg.step, arg.probeStep,
                            0, img.W - probe.Width, startY, endY)
    IN [x |-> m.x, y |-> m.y, sad |-> m.sad, cnt |-> m.cnt]

InitLive ==
    /\ pc = "call"
    /\ \E pat \in Patterns, h \in ImgSizes, ps \in ProbeSizes :
         \E oy \in 0 .. (h - ps) :
            /\ img = TargetImage(pat, MaxImg, h)
            /\ mini = copySubImage(img, 0, oy, ps, ps)
            /\ mask = FullMask(ps, ps)
            /\ probe = UpdateFromMinimap(mini, mask)
            /\ fx = [pat |-> pat, ox |-> 0, oy |-> oy, mk |-> "full"]
    /\ \E step \in Steps, weighted \in BOOLEAN, useConcurrency \in BOOLEAN :
         arg = [step |-> step, probeStep |-> 1, useConcurrency |-> useConcurrency,
                weighted |-> weighted, gamma |-> IF weighted THEN 2 ELSE 1]
    /\ pin = LET maxY == img.H - probe.Height IN
             [searched |-> Searched,
              seq |-> scanOf(0, maxY),
              band |-> [i \in Workers |->
                          scanOf(bandStart(i, maxY, arg.step), bandEnd(i, maxY, arg.step))]]
    /\ wk = [i \in Workers |-> [pc |-> "idle", x |-> 0, y |-> 0, sad |-> noScore, cnt |-> 0]]
    /\ mutex = 0
    /\ glob = [sad |-> noScore, x |-> 0, y |-> 0, cnt |-> 0]
    /\ ret = <<>>
    /\ visited = {}
    /\ won = [sad |-> noScore, cnt |-> 0]
    /\ pout = <<>>

liveVars == <<img, mini, mask, probe, arg, fx, pin, pout, visited>>

\* the call with useConcurrency = false: bx, by, sad := matchRect(0, maxX, 0, maxY)
LiveSequential ==
    /\ pc = "call" /\ ~arg.useConcurrency
    /\ IF ~pin.searched
       THEN ret' = <<0, 0, Zero>> /\ won' = won
       ELSE /\ ret' = IF arg.weighted THEN <<pin.seq.x, pin.seq.y, pin.seq.sad>>
                      ELSE <<pin.seq.x, pin.seq.y,
                             calcAvgDiff(pin.seq.sad, Len(probe.Points) \div arg.probeStep)>>
            /\ won' = [sad |-> pin.seq.sad, cnt |-> pin.seq.cnt]
    /\ pc' = "done"
    /\ UNCHANGED <<wk, mutex, glob, liveVars>>

\* the call with useConcurrency = true up to wg.Wait(): the early returns,
\* the shared minimum, the 8 goroutines
LiveFanOut ==
    /\ pc = "call" /\ arg.useConcurrency
    /\ IF ~pin.searched
       THEN /\ ret' = <<0, 0, Zero>> /\ pc' = "done"
            /\ UNCHANGED <<wk, glob>>
       ELSE /\ glob' = [sad |-> maxScore, x |-> 0, y |-> 0, cnt |-> 0]
            /\ wk' = [i \in Workers |-> [wk[i] EXCEPT !.pc = "run"]]
            /\ pc' = "wait" /\ ret' = ret
    /\ UNCHANGED <<mutex, won, liveVars>>

\* worker i: lx, ly, lSad := matchRect(0, maxX, yStart, yEnd); mutex.Lock()
LiveScan(i) ==
    /\ pc = "wait" /\ wk[i].pc = "run"
    /\ mutex = 0
    /\ wk' = [wk EXCEPT ![i] = [pc |-> "locked", x |-> pin.band[i].x, y |-> pin.band[i].y,
                                sad |-> pin.band[i].sad, cnt |-> pin.band[i].cnt]]
    /\ mutex' = i + 1
    /\ UNCHANGED <<pc, glob, ret, won, liveVars>>

\* a worker that returns without mutex.Unlock()
LiveReport_hold(i) ==
    /\ pc = "wait" /\ wk[i].pc = "locked"
    /\ mutex = i + 1
    /\ glob' = IF IF arg.weighted
                  THEN RatLess(Zero, wk[i].sad) /\ RatLess(wk[i].sad, glob.sad)
                  ELSE wk[i].sad < glob.sad
               THEN [sad |-> wk[i].sad, x |-> wk[i].x, y |-> wk[i].y, cnt |-> wk[i].cnt]
               ELSE glob
    /\ mutex' = mutex
    /\ wk' = [wk EXCEPT ![i].pc = "done"]
    /\ UNCHANGED <<pc, ret, won, liveVars>>

\* worker i: the guarded update, mutex.Unlock(), the deferred wg.Done()
LiveReport(i) ==
    /\ pc = "wait" /\ wk[i].pc = "locked"
    /\ mutex = i + 1
    /\ glob' = IF IF arg.weighted
                  THEN RatLess(Zero, wk[i].sad) /\ RatLess(wk[i].sad, glob.sad)
                  ELSE wk[i].sad < glob.sad
               THEN [sad |-> wk[i].sad, x |-> wk[i].x, y |-> wk[i].y, cnt |-> wk[i].cnt]
               ELSE glob
    /\ mutex' = 0
    /\ wk' = [wk EXCEPT ![i].pc = "done"]
    /\ UNCHANGED <<pc, ret, won, liveVars>>

\* wg.Wait() returns, and the call returns the shared minimum
LiveFanIn ==
    /\ pc = "wait"
    /\ \A i \in Workers : wk[i].pc = "done"
    /\ ret' = IF arg.weighted
              THEN IF glob.sad = MaxFloat64 THEN <<0, 0, Zero>>
                   ELSE <<glob.x, glob.y, glob.sad>>
              ELSE <<glob.x, glob.y,
                     calcAvgDiff(glob.sad, Len(probe.Points) \div arg.probeStep)>>
    /\ won' = [sad |-> glob.sad, cnt |-> glob.cnt]
    /\ pc' = "done"
    /\ UNCHANGED <<wk, mutex, glob, liveVars>>

NextLive ==
    \/ LiveSequential
    \/ LiveFanOut
    \/ \E i \in Workers : LiveScan(i)
    \/ \E i \in Workers : LiveReport(i)
    \/ LiveFanIn

SpecLive == InitLive /\ [][NextLive]_vars /\ WF_vars(NextLive)

\* the calls of SpecLive return what the calls of Spec and SpecConc return
LiveAsCalls ==
    (pc = "done" /\ ~arg.useConcurrency) =>
        ret = IF arg.weighted
              THEN MatchProbeWeightedSeq(img, probe, arg.step, arg.probeStep, arg.gamma)
              ELSE MatchProbeSeq(img, probe, arg.step, arg.probeStep)

\* the positions a worker goes through, in order
WorkerSteps == {<<"idle", "run">>, <<"run", "locked">>, <<"locked", "done">>}

\* C25: every call of MatchProbe and MatchProbeWeighted with step >= 1 and
\* probeStep >= 1 returns; in a concurrent call each of the 8 workers
\* reports its band result exactly once, also a worker whose band is empty,
\* and the call returns only after all 8 have reported.
C25_Terminates ==
    /\ <>(pc = "done")
    /\ [][\A i \in Workers :
             wk'[i] # wk[i] => <<wk[i].pc, wk'[i].pc>> \in WorkerSteps]_vars
    /\ [][\A i \in Workers :
             (wk[i].pc = "locked" /\ wk'[i].pc = "done") =>
                 /\ mutex = i + 1 /\ mutex' = 0
                 /\ \A j \in Workers \ {i} : wk'[j] = wk[j]]_vars
    /\ [][(pc = "wait" /\ pc' = "done") => \A i \in Workers : wk[i].pc = "done"]_vars
    /\ []((pc = "done" /\ arg.useConcurrency /\ Searched) =>
             \A i \in Workers : wk[i].pc = "done")

\* a concurrent call has returned after the reports of 8 workers, of which
\* the last ones had no row to scan
C25_Witness ==
    /\ pc = "done" /\ arg.useConcurrency /\ Searched
    /\ \A i \in Workers : wk[i].pc = "done"
    /\ LET maxY == img.H - probe.Height IN
       /\ bandStart(numWorkers - 1, maxY, arg.step) >= bandEnd(numWorkers - 1, maxY, arg.step)
       /\ bandStart(0, maxY, arg.step) < bandEnd(0, maxY, arg.step)

\* how many values a loop `for v := from; v < to; v += step` takes
loopCount(from, to, step) == IF to <= from THEN 0 ELSE (to - from + step - 1) \div step

\* the k-th candidate (k >= 1) of the row-major enumeration of the scan's
\* rectangle: rows from startY upwards, in each row x from startX upwards
RowMajor(k) ==
    LET nx == loopCount(pin.startX, pin.endX, arg.step) IN
    <<pin.startX + ((k - 1) % nx) * arg.step, pin.startY + ((k - 1) \div nx) * arg.step>>

\* the score of the k-th finished candidate: its total over all sampled
\* points, or none (math.MaxInt64) when the coverage gate rejects it
CandidateScore(k) ==
    LET r == scanProbe(img, probe.Points, arg.probeStep, pout[k].x, pout[k].y, 0,
                       [sad |-> 0, validCount |-> 0], MaxInt64)
    IN IF r.validCount < minRequired(probe.Points, arg.probeStep) THEN MaxInt64 ELSE r.sad

\* C26: one scan of MatchProbe (the whole search, or one worker's band)
\* visits its candidates in row-major order, y ascending and within a row x
\* ascending, in increments of step, and returns, among the candidates that
\* attain the minimum score, the one it visited first.
C26_RowMajorFirstWins ==
    (pc \in {"point", "gate", "done"} /\ Searched) =>
        /\ \A k \in DOMAIN pout : <<pout[k].x, pout[k].y>> = RowMajor(k)
        /\ pc # "done" => <<pin.x, pin.y>> = RowMajor(Len(pout) + 1)
        /\ pc = "done" =>
              /\ Len(pout) = loopCount(pin.startX, pin.endX, arg.step)
                                * loopCount(pin.startY, pin.endY, arg.step)
              /\ \A k \in DOMAIN pout :
                    (\A j \in DOMAIN pout : CandidateScore(k) <= CandidateScore(j))
                    /\ CandidateScore(k) < MaxInt64
                    /\ (\A j \in 1 .. (k - 1) : CandidateScore(j) > CandidateScore(k))
                    => <<ret[1], ret[2]>> = <<pout[k].x, pout[k].y>>

\* a finished scan over several rows and columns in which two candidates
\* attain the minimum, the first of them not the first visited
C26_Witness ==
    /\ pc = "done" /\ Searched
    /\ \E k, j \in DOMAIN pout :
          /\ 1 < k /\ k < j
          /\ CandidateScore(k) = CandidateScore(j) /\ CandidateScore(k) < MaxInt64
          /\ \A n \in DOMAIN pout : CandidateScore(k) <= CandidateScore(n)
          /\ \A n \in 1 .. (k - 1) : CandidateScore(n) > CandidateScore(k)
          /\ <<ret[1], ret[2]>> = <<pout[k].x, pout[k].y>>
    /\ \E k, j \in DOMAIN pout : pout[k].x # pout[j].x /\ pout[k].y # pout[j].y

\* the candidate loops of matchRect with the break of lines 545-547 removed:
\* every candidate is scanned over all its sampled points
RECURSIVE matchLoopNoBreak(_, _, _, _)
matchLoopNoBreak(c, x, y, best) ==
    IF y >= c.endY THEN best
    ELSE IF x >= c.endX THEN matchLoopNoBreak(c, c.startX, y + c.step, best)
    ELSE LET r == scanProbe(c.img, c.points, c.probeStep, x, y, 0,
                            [sad |-> 0, validCount |-> 0], MaxInt64)
         IN matchLoopNoBreak(c, x + c.step, y,
                IF r.validCount < minRequired(c.points, c.probeStep) THEN best
                ELSE IF r.sad < best.sad THEN [x |-> x, y |-> y, sad |-> r.sad]
                ELSE best)

\* MatchProbe(img, probe, step, probeStep, false) without the early exit
MatchProbeNoBreak(im, prb, step, probeStep) ==
    IF noSearch(im, prb, probeStep) THEN <<0, 0, Zero>>
    ELSE LET m == matchLoopNoBreak(
                      [img |-> im, points |-> prb.Points, step |-> step,
                       probeStep |-> probeStep, startX |-> 0, endX |-> im.W - prb.Width,
                       startY |-> 0, endY |-> im.H - prb.Height],
                      0, 0, [x |-> 0, y |-> 0, sad |-> MaxInt64])
         IN <<m.x, m.y, calcAvgDiff(m.sad, Len(prb.Points) \div probeStep)>>

\* C27: the sequential MatchProbe returns the (x, y, avgDiff) that the same
\* search returns with the early-exit break removed; a candidate abandoned
\* early, whose point count is then partial, is not the one the full scan
\* selects.
C27_EarlyExitHarmless ==
    (pc = "done" /\ ~arg.useConcurrency) =>
        /\ ret = MatchProbeNoBreak(img, probe, arg.step, arg.probeStep)
        /\ \A k \in DOMAIN pout :
              pout[k].broke => <<pout[k].x, pout[k].y, pout[k].sad>>
                                  # <<pin.localX, pin.localY, pin.localMinSAD>>

\* a sequential search has returned a finite score after abandoning a
\* candidate before its last sampled point, with enough points counted to
\* pass the coverage gate
C27_Witness ==
    /\ pc = "done" /\ ~arg.useConcurrency /\ Searched
    /\ pin.localMinSAD < MaxInt64
    /\ \E k \in DOMAIN pout :
          /\ pout[k].broke
          /\ pout[k].validCount >= minRequired(probe.Points, arg.probeStep)
          /\ pout[k].validCount
                < scanProbe(img, probe.Points, arg.probeStep, pout[k].x, pout[k].y, 0,
                            [sad |-> 0, validCount |-> 0], MaxInt64).validCount

\* the sampled point i of the candidate (x, y) lies on a pixel of the target
InsideTarget(i, x, y) ==
    LET p == probe.Points[i + 1] IN
    /\ 0 <= x + p.X /\ x + p.X < img.W
    /\ 0 <= y + p.Y /\ y + p.Y < img.H
    /\ ~outOfRange(img, pointOff(img, p, x, y))

\* C28: with a probe built by UpdateFromMinimap and a target whose pixel
\* buffer holds all its pixels, every candidate that MatchProbe or
\* MatchProbeWeighted evaluates has all its sampled points inside the
\* target; so a candidate scanned to the end always passes the 85% gate,
\* and the sequential MatchProbe returns a finite score whenever it gets
\* past its early returns.
C28_AlwaysCovered ==
    (pc = "done" /\ Searched) =>
        /\ \A c \in visited : \A i \in SampledIdx(probe, arg.probeStep) :
              InsideTarget(i, c[1], c[2])
        /\ \A c \in visited :
              Sampled(probe, arg.probeStep) - OobCount(img, probe, arg.probeStep, c[1], c[2])
                  >= minRequired(probe.Points, arg.probeStep)
        /\ visited # {}
        /\ ~arg.weighted =>
              /\ won.sad < MaxInt64
              /\ won.cnt = Sampled(probe, arg.probeStep)
              /\ ret[3] = Rat(won.sad, 3 * (Len(probe.Points) \div arg.probeStep))

\* a sequential MatchProbe has returned for a probe of several points sampled
\* at every second point, for which the gate asks for at least one point
C28_Witness ==
    /\ pc = "done" /\ Searched /\ ~arg.weighted
    /\ Len(probe.Points) > 2 /\ arg.probeStep = 2
    /\ minRequired(probe.Points, arg.probeStep) > 0
    /\ won.sad < MaxInt64

\* the same on the larger searches of SpecScan, step by step: with a probe
\* as UpdateFromMinimap built it no point of a candidate is skipped, and no
\* candidate scanned to the end fails the gate
ScanAlwaysCovered ==
    (probe = UpdateFromMinimap(mini, mask) /\ pc \in {"point", "gate", "done"} /\ Searched) =>
        /\ pc = "point" /\ pin.i < Len(probe.Points) =>
              InsideTarget(pin.i, pin.x, pin.y)
        /\ \A k \in DOMAIN pout :
              ~pout[k].broke =>
                  /\ pout[k].validCount = Sampled(probe, arg.probeStep)
                  /\ pout[k].validCount >= minRequired(probe.Points, arg.probeStep)
        /\ (pc = "done" /\ pin.worker < 0) => pin.localMinSAD < MaxInt64
(***************************************************************************)
(* The custom actions DynamicMatchAction and UltimateSkillAction.          *)
(* arg.RecognitionDetail.DetailJson is a JSON text; it is described here   *)
(* by what encoding/json sees in it: doc is the kind of the top-level      *)
(* value ("garbage" when the text is not JSON), and for an object key is   *)
(* the name of its one member of interest and member the kind of that      *)
(* member's value, n its value when it is an integer.                      *)
(***************************************************************************)
MaxKeyNum == 6     \* integer members range over -1 .. MaxKeyNum

Details ==
    {[doc |-> d, key |-> "", member |-> "", n |-> 0] :
        d \in {"garbage", "null", "array", "number", "empty object"}}
    \cup {[doc |-> "object", key |-> k, member |-> m, n |-> 0] :
            k \in {"key_num", "KEY_NUM", "keyNum"},
            m \in {"null", "fraction", "string", "huge"}}
    \cup {[doc |-> "object", key |-> k, member |-> "int", n |-> n] :
            k \in {"key_num", "KEY_NUM", "keyNum"}, n \in -1 .. MaxKeyNum}

Boxes == {<<0, 0, 0, 0>>, <<640, 600, 64, 64>>}

\* json.Unmarshal([]byte(detailStr), &detail) for detail struct{ KeyNum int
\* `json:"key_num"` }: [err, KeyNum].  A member is matched to the field by
\* its name without regard to case, other members are ignored, null leaves
\* the field as it is (0); a value that is not an integer of the width of
\* int, or a top-level value that is not an object or null, is an error.
Unmarshal(d) ==
    CASE d.doc = "garbage" -> [err |-> TRUE, KeyNum |-> 0]
      [] d.doc \in {"array", "number"} -> [err |-> TRUE, KeyNum |-> 0]
      [] d.doc \in {"null", "empty object"} -> [err |-> FALSE, KeyNum |-> 0]
      [] d.doc = "object" ->
            IF d.key \notin {"key_num", "KEY_NUM"} THEN [err |-> FALSE, KeyNum |-> 0]
            ELSE CASE d.member = "int" -> [err |-> FALSE, KeyNum |-> d.n]
                   [] d.member = "null" -> [err |-> FALSE, KeyNum |-> 0]
                   [] OTHER -> [err |-> TRUE, KeyNum |-> 0]

\* a test that also takes key_num 0
validKey_zero(keyNum) == keyNum >= 0 /\ keyNum <= 4

\* detail.KeyNum >= 1 && detail.KeyNum <= 4
validKey(keyNum) == keyNum >= 1 /\ keyNum <= 4

\* pin is the argument [DetailJson, Box]; pout logs the calls of
\* ctx.RunAction as [action, box, param], param being the JSON object that
\* json.Marshal makes of the map; ret holds the value returned
InitAction ==
    /\ pc = "action"
    /\ \E d \in Details, b \in Boxes : pin = [DetailJson |-> d, Box |-> b]
    /\ pout = <<>>
    /\ ret = <<>>
    /\ img = <<>> /\ mini = <<>> /\ mask = <<>> /\ probe = <<>> /\ arg = <<>> /\ fx = <<>>
    /\ wk = <<>> /\ mutex = 0 /\ glob = <<>> /\ visited = {} /\ won = <<>>

actionVars == <<pin, img, mini, mask, probe, arg, fx, wk, mutex, glob, visited, won>>

\* (a *DynamicMatchAction) Run(ctx, arg)
DynamicMatchActionRun ==
    /\ pc = "action"
    /\ LET detail == Unmarshal(pin.DetailJson) IN
       IF detail.err THEN ret' = <<FALSE>> /\ pout' = pout
       ELSE IF validKey(detail.KeyNum)
       THEN /\ pout' = Append(pout, [action |-> "ClickKey", box |-> pin.Box,
                                     param |-> [key |-> 48 + detail.KeyNum]])
            /\ ret' = <<TRUE>>
       ELSE ret' = <<FALSE>> /\ pout' = pout
    /\ pc' = "DynamicMatchAction"
    /\ UNCHANGED actionVars

\* (a *UltimateSkillAction) Run(ctx, arg)
UltimateSkillActionRun ==
    /\ pc = "action"
    /\ LET detail == Unmarshal(pin.DetailJson) IN
       IF detail.err THEN ret' = <<FALSE>> /\ pout' = pout
       ELSE IF validKey(detail.KeyNum)
       THEN /\ pout' = Append(pout, [action |-> "LongPressKey", box |-> pin.Box,
                                     param |-> [key |-> 48 + detail.KeyNum,
                                                duration |-> 300]])
            /\ ret' = <<TRUE>>
       ELSE ret' = <<FALSE>> /\ pout' = pout
    /\ pc' = "UltimateSkillAction"
    /\ UNCHANGED actionVars

NextAction == DynamicMatchActionRun \/ UltimateSkillActionRun

SpecAction == InitAction /\ [][NextAction]_vars

\* the key_num of a detail that parses, by the reading of encoding/json
ParsedKeyNum == Unmarshal(pin.DetailJson).KeyNum

\* C29: DynamicMatchAction.Run issues one ClickKey, and
\* UltimateSkillAction.Run one LongPressKey of 300 ms, exactly when the
\* recognition detail parses and its key_num is in 1..4, with key code
\* 48 + key_num (49..52) on the box of the recognition, and returns true;
\* otherwise it issues no action and returns false.
C29_KeyAction ==
    /\ pc = "DynamicMatchAction" =>
          IF ~Unmarshal(pin.DetailJson).err /\ ParsedKeyNum \in 1 .. 4
          THEN /\ ret = <<TRUE>>
               /\ pout = <<[action |-> "ClickKey", box |-> pin.Box,
                            param |-> [key |-> 48 + ParsedKeyNum]]>>
               /\ pout[1].param.key \in 49 .. 52
          ELSE ret = <<FALSE>> /\ pout = <<>>
    /\ pc = "UltimateSkillAction" =>
          IF ~Unmarshal(pin.DetailJson).err /\ ParsedKeyNum \in 1 .. 4
          THEN /\ ret = <<TRUE>>
               /\ pout = <<[action |-> "LongPressKey", box |-> pin.Box,
                            param |-> [key |-> 48 + ParsedKeyNum, duration |-> 300]]>>
               /\ pout[1].param.key \in 49 .. 52
          ELSE ret = <<FALSE>> /\ pout = <<>>

\* the ultimate key 4 has been long-pressed on a box that is not empty
C29_Witness ==
    /\ pc = "UltimateSkillAction" /\ ret = <<TRUE>>
    /\ Len(pout) = 1 /\ pout[1].param.key = 52 /\ pout[1].param.duration = 300
    /\ pout[1].box[3] > 0

(***************************************************************************)
(* The custom recognitions DynamicMatchRecognition and                     *)
(* UltimateSkillRecognition, one call of ctx.RunRecognition at a time.     *)
(* Scores and thresholds are float64 in the code; here they are counted    *)
(* in hundredths (0.7 is 70), and the thresholds above 1.0 are whole       *)
(* numbers, so that `/ 100.0` is exact.  arg.who names the recognition;    *)
(* pin holds the parsed parameters [SkillROI, rois, KeyROIs, Threshold],   *)
(* rois being bottom_rois, resp. ult_rois; glob holds the locals of Run:   *)
(* the effective Threshold, bestIdx, maxScore, the loop index i, which     *)
(* template is matched (pass), and a log of the scores of the candidates.  *)
(***************************************************************************)
MaxRois == 2     \* the candidate list holds at most MaxRois entries

RoiEntries == {<<7, 8>>, <<100, 600, 64, 64>>, <<200, 600, 64, 64, 9>>}

RECURSIVE SeqsUpTo(_, _)
SeqsUpTo(S, n) ==
    IF n = 0 THEN {<<>>}
    ELSE SeqsUpTo(S, n - 1)
         \cup {Append(s, e) : s \in {q \in SeqsUpTo(S, n - 1) : Len(q) = n - 1}, e \in S}

\* threshold as given: -1.0, absent, 0.8, 70
RecogThresholds == {-100, 0, 80, 7000}

\* what ctx.RunRecognition returns for one candidate: nil, or a detail that
\* does not parse, holds a best score, or holds only the list `all`
Results ==
    {[kind |-> k, best |-> 0, all |-> <<>>] : k \in {"nil", "bad"}}
    \cup {[kind |-> "best", best |-> s, all |-> <<>>] : s \in {-30, 60, 90}}
    \cup {[kind |-> "all", best |-> 0, all |-> a] : a \in {<<-10>>, <<20, 85>>}}

\* the loop `for _, item := range detail.All { if item.Score > score ... }`
RECURSIVE maxOfAll(_, _, _)
maxOfAll(all, k, score) ==
    IF k > Len(all) THEN score
    ELSE maxOfAll(all, k + 1, IF all[k] > score THEN all[k] ELSE score)

\* the score Run reads from a result: 0 for nil and for a detail that does
\* not parse, best.score when there is a best, else the largest of `all`
\* that is above 0
scoreOf(res) ==
    CASE res.kind = "best" -> res.best
      [] res.kind = "all" -> maxOfAll(res.all, 1, 0)
      [] OTHER -> 0

\* the default of an unset threshold, then the division of one above 1.0
effectiveThreshold(who, t) ==
    LET d == IF t = 0 THEN (IF who = "DynamicMatch" THEN 70 ELSE 10) ELSE t
    IN IF d > 100 THEN d \div 100 ELSE d

\* if score > maxScore
betterScore(score, best) == score > best

InitRecog ==
    /\ pc = "recognize"
    /\ \E who \in {"DynamicMatch", "UltimateSkill"} : arg = [who |-> who]
    /\ \E skill \in {<<7, 8>>, <<300, 80, 28, 28>>}, rois \in SeqsUpTo(RoiEntries, MaxRois),
          keys \in {<<>>, <<7, 8>>, <<110, 650, 20, 20>>}, t \in RecogThresholds :
          pin = [SkillROI |-> skill, rois |-> rois,
                 KeyROIs |-> IF keys = <<>> THEN <<>> ELSE [k \in DOMAIN rois |-> keys],
                 Threshold |-> t]
    /\ glob = <<>> /\ ret = <<>> /\ pout = <<>>
    /\ img = <<>> /\ mini = <<>> /\ mask = <<>> /\ probe = <<>> /\ fx = <<>>
    /\ wk = <<>> /\ mutex = 0 /\ visited = {} /\ won = <<>>

recogVars == <<img, mini, mask, probe, fx, wk, mutex, visited, won, arg, pin, pout>>

\* Run up to the first candidate: the validation of the parameters, the
\* threshold, the image and the template (which the environment may refuse)
RecogStart ==
    /\ pc = "recognize"
    /\ IF Len(pin.SkillROI) < 4 \/ Len(pin.rois) = 0
       THEN /\ ret' = <<FALSE>> /\ pc' = "returned" /\ glob' = glob
       ELSE \E templateOk \in BOOLEAN :
              IF ~templateOk
              THEN /\ ret' = <<FALSE>> /\ pc' = "returned" /\ glob' = glob
              ELSE /\ glob' = [Threshold |-> effectiveThreshold(arg.who, pin.Threshold),
                               bestIdx |-> -1, maxScore |-> -100, i |-> 0,
                               pass |-> "full", scores |-> <<>>]
                   /\ pc' = "match" /\ ret' = ret
    /\ UNCHANGED recogVars

\* one iteration of `for i, roi := range rois`
RecogCandidate ==
    /\ pc = "match" /\ glob.i < Len(pin.rois)
    /\ IF Len(pin.rois[glob.i + 1]) < 4
       THEN glob' = [glob EXCEPT !.i = @ + 1]
       ELSE \E res \in Results :
              LET score == scoreOf(res) IN
              glob' = [glob EXCEPT
                          !.i = @ + 1,
                          !.scores = Append(@, score),
                          !.maxScore = IF betterScore(score, glob.maxScore) THEN score ELSE @,
                          !.bestIdx = IF betterScore(score, glob.maxScore) THEN glob.i ELSE @]
    /\ UNCHANGED <<pc, ret, recogVars>>

\* after the loop: DynamicMatchRecognition tries the half-height template
\* once when the best score is below the threshold; then the test
\* `maxScore < params.Threshold` decides between no hit and the key
RecogDecide ==
    /\ pc = "match" /\ glob.i >= Len(pin.rois)
    /\ \E halfOk \in BOOLEAN :
          IF /\ arg.who = "DynamicMatch" /\ glob.pass = "full"
             /\ glob.maxScore < glob.Threshold /\ halfOk
          THEN /\ glob' = [glob EXCEPT !.pass = "half", !.i = 0]
               /\ pc' = "match" /\ ret' = ret
          ELSE IF glob.maxScore < glob.Threshold
          THEN /\ ret' = <<FALSE>> /\ pc' = "returned" /\ glob' = glob
          ELSE /\ pc' = "key" /\ ret' = ret /\ glob' = glob
    /\ UNCHANGED recogVars

\* the key number (any of -1, 1..4, as the four template matches decide)
\* and the result: Detail is the object json.Marshal makes of the map
RecogReturn ==
    /\ pc = "key"
    /\ IF /\ glob.bestIdx >= 0 /\ glob.bestIdx < Len(pin.KeyROIs)
          /\ Len(pin.KeyROIs[glob.bestIdx + 1]) < 4
       THEN pc' = "panic" /\ ret' = ret
       ELSE \E keyNum \in {-1, 1, 2, 3, 4} :
              /\ (glob.bestIdx >= 0 /\ glob.bestIdx < Len(pin.KeyROIs)) \/ keyNum = -1
              /\ LET r == IF glob.bestIdx >= 0 /\ glob.bestIdx < Len(pin.rois)
                          THEN pin.rois[glob.bestIdx + 1] ELSE <<>>
                     box == IF Len(r) >= 4 THEN <<r[1], r[2], r[3], r[4]>> ELSE <<0, 0, 0, 0>>
                 IN ret' = <<TRUE, [Box |-> box,
                                    Detail |-> [index |-> glob.bestIdx,
                                                score |-> glob.maxScore,
                                                key_num |-> keyNum]]>>
              /\ pc' = "returned"
    /\ UNCHANGED <<glob, recogVars>>

NextRecog == RecogStart \/ RecogCandidate \/ RecogDecide \/ RecogReturn

SpecRecog == InitRecog /\ [][NextRecog]_vars

\* C30: whenever DynamicMatchRecognition.Run or UltimateSkillRecognition.Run
\* reports a hit, the index it reports is a valid index into the candidate
\* list, of an entry with at least 4 elements; the box it returns is that
\* ROI; and the score it reports is the highest of the candidates' scores
\* and at least the effective threshold.
C30_HitIsValid ==
    (pc = "returned" /\ ret[1]) =>
        LET d == ret[2].Detail IN
        /\ d.index >= 0 /\ d.index < Len(pin.rois)
        /\ Len(pin.rois[d.index + 1]) >= 4
        /\ ret[2].Box = [k \in 1 .. 4 |-> pin.rois[d.index + 1][k]]
        /\ \A k \in DOMAIN glob.scores : glob.scores[k] <= d.score
        /\ \E k \in DOMAIN glob.scores : glob.scores[k] = d.score
        /\ d.score >= effectiveThreshold(arg.who, pin.Threshold)

====
